---- MODULE Spec2Model ----
(***************************************************************************)
(* A model of easyila's Model/Instance intermediate representation:        *)
(* Model.validate and Model.case_split of src/src/easyila/model.py.        *)
(*                                                                         *)
(* Python values are represented as follows.                               *)
(*   str            a sequence of atoms (<<"top">>, <<"sub", ".", "o">>):  *)
(*                  concatenation is \o, and "." in s is membership of     *)
(*                  the atom "." .                                         *)
(*   list           a sequence.                                            *)
(*   dict           a sequence of [k, v] records with distinct keys, in    *)
(*                  insertion order.                                       *)
(*   smt.Sort       a record [kind, bitwidth].                             *)
(*   smt.Term       a record [op, name, sort, val, args, keys].            *)
(*   Model          a record of its dataclass fields.                      *)
(***************************************************************************)
EXTENDS Naturals, Sequences, FiniteSets, TLC

VARIABLES
    model,      \* the Model the operations are applied to
    hashSeed,   \* the process's hash seed: fixes the iteration order of sets
    hist,       \* the diagnostics (errs) of each validate() call made so far
    split,      \* the outcome of the last case_split call
    submodels,  \* submodel_list as the last _get_submodules call left it
    uclid,      \* the outcome of the last to_uclid_with_children call
    rewrite,    \* the expression given to fix_var_refs and what it returned
    translation, \* a verilog_to_model call and the Model it returned
    lowering,   \* a variable-index design, a valuation of it, and the values read
    guidance,   \* the Guidance object
    answer      \* the last call made on the Guidance object and its outcome

\* the variables of the operations on a Model
modelVars == <<model, hashSeed, hist, split, submodels, uclid>>
\* the variables of the other operations
otherVars == <<rewrite, translation, lowering, guidance, answer>>

vars == <<modelVars, otherVars>>

-----------------------------------------------------------------------------
(* Bounds of the model.                                                    *)

\* at most this many edits separate a drawn Model from the base design
MaxEdits == 2
\* at most this many successive validate() calls are followed
MaxCalls == 2

-----------------------------------------------------------------------------
(* Generic helpers for lists and dicts.                                    *)

Range(s) == {s[i] : i \in DOMAIN s}

RECURSIVE Concat(_)
Concat(ss) == IF ss = <<>> THEN <<>> ELSE Head(ss) \o Concat(Tail(ss))

\* the distinct elements of s, each at its first position
RECURSIVE Dedup(_)
Dedup(s) ==
    IF s = <<>> THEN <<>>
    ELSE LET front == Dedup(SubSeq(s, 1, Len(s) - 1))
             last  == s[Len(s)]
         IN  IF last \in Range(front) THEN front ELSE Append(front, last)

\* list.remove(x): drops the first element equal to x
RECURSIVE ListRemove(_, _)
ListRemove(s, x) ==
    IF s = <<>> THEN <<>>
    ELSE IF Head(s) = x THEN Tail(s)
    ELSE <<Head(s)>> \o ListRemove(Tail(s), x)

DictKeys(d) == [i \in DOMAIN d |-> d[i].k]
DictKeySet(d) == {d[i].k : i \in DOMAIN d}
DictHas(d, key) == \E i \in DOMAIN d : d[i].k = key
DictGet(d, key) == d[CHOOSE i \in DOMAIN d : d[i].k = key].v

\* d[key] = value: overwrites in place, or appends a new key
DictSet(d, key, value) ==
    IF DictHas(d, key)
    THEN [i \in DOMAIN d |-> IF d[i].k = key THEN [k |-> key, v |-> value] ELSE d[i]]
    ELSE Append(d, [k |-> key, v |-> value])

\* a dict built from a list of [k, v] items, later items overwriting earlier ones
RECURSIVE DictOf(_)
DictOf(items) ==
    IF items = <<>> THEN <<>>
    ELSE LET n == Len(items)
         IN  DictSet(DictOf(SubSeq(items, 1, n - 1)), items[n].k, items[n].v)

\* the order in which a Python set is iterated: fixed within a process by the
\* hash seed, and not otherwise specified
RECURSIVE SetOrderAsc(_)
SetOrderAsc(S) ==
    IF S = {} THEN <<>>
    ELSE LET e == CHOOSE y \in S : TRUE IN <<e>> \o SetOrderAsc(S \ {e})

Reverse(s) == [i \in DOMAIN s |-> s[Len(s) + 1 - i]]

SetOrder(S, seed) == IF seed = 0 THEN SetOrderAsc(S) ELSE Reverse(SetOrderAsc(S))

-----------------------------------------------------------------------------
(* The symbolic expression library (easyila.lynth.smt), as far as Model    *)
(* uses it.                                                                *)

BoolSort == [kind |-> "bool", bitwidth |-> 0]
BVSort(w) == [kind |-> "bv", bitwidth |-> w]
ArraySort == [kind |-> "array", bitwidth |-> 0]

Term(op, name, sort, val, args, keys) ==
    [op |-> op, name |-> name, sort |-> sort, val |-> val, args |-> args, keys |-> keys]

Variable(name, sort) == Term("var", name, sort, 0, <<>>, <<>>)
BoolConst(b) == Term("const", <<>>, BoolSort, IF b THEN 1 ELSE 0, <<>>, <<>>)
BVConst(v, w) == Term("const", <<>>, BVSort(w), v, <<>>, <<>>)
\* bitwise / logical negation: an operator application of its argument's sort
NotTerm(t) == Term("not", <<>>, t.sort, 0, <<t>>, <<>>)
\* t[i]: one bit of a bitvector, an operator application (not a Variable)
IndexTerm(t, i) == Term("index", <<>>, BoolSort, i, <<t>>, <<>>)
\* cond.ite(a, b)
Ite(cond, a, b) == Term("ite", <<>>, a.sort, 0, <<cond, a, b>>, <<>>)
\* sel.match_const({key: branch, ...}): cases is a dict from int to Term
MatchConst(sel, cases, sort) ==
    Term("match", <<>>, sort, 0, <<sel>> \o [i \in DOMAIN cases |-> cases[i].v], DictKeys(cases))
\* smt.OpTerm(kind, args) for the binary bitvector kinds BVAnd, BVOr, BVSrl,
\* BVSll: an application of the sort of its first operand
OpTerm(kind, args) == Term(kind, <<>>, args[1].sort, 0, args, <<>>)
\* t.zpad(n): t zero-extended by n bits (a Bool is one bit wide)
zpad(t, n) ==
    Term("zpad", <<>>, BVSort((IF t.sort.kind = "bool" THEN 1 ELSE t.sort.bitwidth) + n), 0, <<t>>, <<>>)
\* an application declared Bool whatever its operand: ill-typed on a bitvector
BoolNot(t) == Term("not", <<>>, BoolSort, 0, <<t>>, <<>>)

isVariable(t) == t.op = "var"

\* Term.typecheck(): the declared sort is consistent with the subterms
RECURSIVE typecheck(_)
typecheck(t) ==
    /\ \A i \in DOMAIN t.args : typecheck(t.args[i])
    /\ CASE t.op = "not"   -> t.args[1].sort = t.sort
         [] t.op = "index" -> t.args[1].sort.kind = "bv" /\ t.val < t.args[1].sort.bitwidth
         [] t.op = "ite"   -> /\ t.args[1].sort = BoolSort
                              /\ t.args[2].sort = t.sort
                              /\ t.args[3].sort = t.sort
         [] t.op = "match" -> \A i \in 2..Len(t.args) : t.args[i].sort = t.sort
         [] OTHER          -> TRUE

\* Term.replace_vars({from: to}): every occurrence of the variable replaced
RECURSIVE replace_vars(_, _, _)
replace_vars(t, from, to) ==
    IF t = from THEN to
    ELSE [t EXCEPT !.args = [i \in DOMAIN t.args |-> replace_vars(t.args[i], from, to)]]

\* the variables a term refers to
RECURSIVE TermVars(_)
TermVars(t) ==
    IF isVariable(t) THEN {t}
    ELSE UNION {TermVars(t.args[i]) : i \in DOMAIN t.args}

\* str == Term, as `name in self.logic` evaluates it for a dict keyed by Terms:
\* a str and a Term are never equal
StrEqualsTerm(name, t) == FALSE

-----------------------------------------------------------------------------
(* UFPlaceholder, Instance and Model values.                               *)

UFPlaceholder(name, sort, params, free_arg) ==
    [name |-> name, sort |-> sort, params |-> params, free_arg |-> free_arg]

Instance(m, inputs) == [model |-> m, inputs |-> inputs]

KV(key, value) == [k |-> key, v |-> value]

\* Model(name): every other field at its dataclass default
NewModel(name) ==
    [name |-> name, inputs |-> <<>>, outputs |-> <<>>, state |-> <<>>,
     ufs |-> <<>>, next_ufs |-> <<>>, instances |-> <<>>, logic |-> <<>>,
     default_next |-> << <<>> >>, assertions |-> <<>>, assumptions |-> <<>>,
     generated_by |-> {"MANUAL"}]

-----------------------------------------------------------------------------
(* Model.validate                                                          *)

\* one diagnostic passed to report(): the message kind and what it names
Diag(kind, who, what) == [kind |-> kind, who |-> who, what |-> what]

\* a variant of NewErrs: the list is created once and shared by every call
NewErrsShared(prev) == prev

\* errs = [] at the start of a call (prev: the list the previous call filled)
NewErrs(prev) == <<>>

\* "." in s
HasDot(s) == "." \in Range(s)

\* get_var_counts(l): the names of l in first-appearance order (the keys of
\* the counts dict) and the number of appearances of a name
CountKeys(l) == Dedup([i \in DOMAIN l |-> l[i].name])
CountOf(l, s) == Cardinality({i \in DOMAIN l : l[i].name = s})
InCounts(l, s) == \E i \in DOMAIN l : l[i].name = s

\* a sequence holding d when cond holds (an `if cond: report(d)`)
When(cond, d) == IF cond THEN <<d>> ELSE <<>>

RECURSIVE validate(_, _)

\* a variant of InstanceErrs: the instantiated model is not validated
InstanceErrsShallow(m, seed) ==
    Concat([i \in DOMAIN m.instances |->
        LET subname == m.instances[i].k
            sub     == m.instances[i].v
            needed  == Range(sub.model.inputs)
            given   == DictKeySet(sub.inputs)
            missing == SetOrder(needed \ given, seed)
            extra   == SetOrder(given \ needed, seed)
        IN  [j \in DOMAIN missing |-> Diag("missing_binding", subname, missing[j].name)]
            \o [j \in DOMAIN extra |-> Diag("unknown_binding", subname, extra[j].name)]])

\* a variant of InstanceErrs: bindings for undeclared inputs are not looked for
InstanceErrsNoExtra(m, seed) ==
    Concat([i \in DOMAIN m.instances |->
        LET subname == m.instances[i].k
            sub     == m.instances[i].v
            needed  == Range(sub.model.inputs)
            given   == DictKeySet(sub.inputs)
            missing == SetOrder(needed \ given, seed)
        IN  When(~validate(sub.model, seed), Diag("submodule_invalid", subname, <<>>))
            \o [j \in DOMAIN missing |-> Diag("missing_binding", subname, missing[j].name)]])

\* Zeroth pass: all instances and port bindings
InstanceErrs(m, seed) ==
    Concat([i \in DOMAIN m.instances |->
        LET subname == m.instances[i].k
            sub     == m.instances[i].v
            needed  == Range(sub.model.inputs)
            given   == DictKeySet(sub.inputs)
            missing == SetOrder(needed \ given, seed)
            extra   == SetOrder(given \ needed, seed)
        IN  When(~validate(sub.model, seed), Diag("submodule_invalid", subname, <<>>))
            \o [j \in DOMAIN missing |-> Diag("missing_binding", subname, missing[j].name)]
            \o [j \in DOMAIN extra |-> Diag("unknown_binding", subname, extra[j].name)]])

\* First pass: no variable is declared multiple times
DeclErrs(m) ==
    LET ins  == CountKeys(m.inputs)
        outs == CountKeys(m.outputs)
        sts  == CountKeys(m.state)
        ufns == CountKeys(m.ufs)
    IN  Concat([i \in DOMAIN ins |->
            When(HasDot(ins[i]), Diag("input_dot", ins[i], <<>>))
            \o When(CountOf(m.inputs, ins[i]) > 1, Diag("input_multiple", ins[i], <<>>))
            \o When(InCounts(m.outputs, ins[i]), Diag("input_also_output", ins[i], <<>>))
            \o When(InCounts(m.state, ins[i]), Diag("input_also_state", ins[i], <<>>))
            \o When(InCounts(m.ufs, ins[i]), Diag("input_also_uf", ins[i], <<>>))])
        \o Concat([i \in DOMAIN outs |->
            When(HasDot(outs[i]), Diag("output_dot", outs[i], <<>>))
            \o When(CountOf(m.outputs, outs[i]) > 1, Diag("output_multiple", outs[i], <<>>))
            \o When(InCounts(m.state, outs[i]), Diag("output_also_state", outs[i], <<>>))])
        \o Concat([i \in DOMAIN sts |->
            When(HasDot(sts[i]), Diag("state_dot", sts[i], <<>>))
            \o When(CountOf(m.state, sts[i]) > 1, Diag("state_multiple", sts[i], <<>>))
            \o When(InCounts(m.ufs, sts[i]), Diag("state_also_uf", sts[i], <<>>))])
        \o Concat([i \in DOMAIN ufns |->
            When(HasDot(ufns[i]), Diag("uf_dot", ufns[i], <<>>))
            \o When(CountOf(m.ufs, ufns[i]) > 1, Diag("uf_multiple", ufns[i], <<>>))])

\* {v.name for v in d if isinstance(v, smt.Variable)}
VariableKeyNames(d) == {d[i].k.name : i \in {j \in DOMAIN d : isVariable(d[j].k)}}

\* next_keys: the names of the Variable keys of every transition of default_next
NextKeys(m) == UNION {VariableKeyNames(m.default_next[i]) : i \in DOMAIN m.default_next}

\* logic_and_next
LogicAndNext(m) == VariableKeyNames(m.logic) \cup NextKeys(m)

\* v.name in self.logic: a str looked up in a dict keyed by Terms
NameInLogic(m, name) == \E i \in DOMAIN m.logic : StrEqualsTerm(name, m.logic[i].k)

\* Second pass: state and outputs have logic or transitions, inputs and UFs
\* have none
AssignErrs(m) ==
    Concat([i \in DOMAIN m.inputs |->
        When(NameInLogic(m, m.inputs[i].name), Diag("input_has_logic", m.inputs[i].name, <<>>))
        \o When(m.inputs[i].name \in NextKeys(m), Diag("input_has_next", m.inputs[i].name, <<>>))])
    \o Concat([i \in DOMAIN m.state |->
        When(m.state[i].sort.kind # "array" /\ m.state[i].name \notin LogicAndNext(m),
             Diag("state_unassigned", m.state[i].name, <<>>))])
    \o Concat([i \in DOMAIN m.outputs |->
        When(m.outputs[i].name \notin LogicAndNext(m) /\ ~InCounts(m.ufs, m.outputs[i].name),
             Diag("output_unassigned", m.outputs[i].name, <<>>))])
    \o Concat([i \in DOMAIN m.ufs |->
        When(NameInLogic(m, m.ufs[i].name), Diag("uf_has_logic", m.ufs[i].name, <<>>))
        \o When(m.ufs[i].name \in NextKeys(m), Diag("uf_has_next", m.ufs[i].name, <<>>))])

\* the label of a logic/transition key in a type-error message
KeyLabel(key) == IF isVariable(key) THEN key.name ELSE <<key.op>>

\* nth pass: transition relations and expressions type check
TypeErrs(m) ==
    Concat([i \in DOMAIN m.logic |->
        When(~typecheck(m.logic[i].v), Diag("logic_type_error", KeyLabel(m.logic[i].k), <<>>))])
    \o Concat([n \in DOMAIN m.default_next |->
        Concat([i \in DOMAIN m.default_next[n] |->
            When(~typecheck(m.default_next[n][i].v),
                 Diag("next_type_error", KeyLabel(m.default_next[n][i].k), <<>>))])])

\* the errs list of one validate() call, started from errs0
validate_errs(m, seed, errs0) ==
    errs0 \o InstanceErrs(m, seed) \o DeclErrs(m) \o AssignErrs(m) \o TypeErrs(m)

\* return len(errs) == 0
validate(m, seed) == Len(validate_errs(m, seed, NewErrs(<<>>))) = 0

-----------------------------------------------------------------------------
(* Model.case_split                                                        *)

\* a call that raised: no Model is returned
Raise(exception) == [status |-> exception]
\* a call that returned the Model m
Return(m) == [status |-> "ok", model |-> m]

\* possible_values: None, or a tuple, list or range of values (True is 1,
\* False is 0, as Python compares and formats them)
NoValues == [kind |-> "none", vals |-> <<>>]
Values(kind, vals) == [kind |-> kind, vals |-> vals]

RECURSIVE Pow2(_)
Pow2(n) == IF n = 0 THEN 1 ELSE 2 * Pow2(n - 1)

\* the sort has a bitwidth attribute
HasBitwidth(sort) == sort.kind = "bv"

\* format(n, "b"): the binary digits of n, most significant first
RECURSIVE BinDigits(_)
BinDigits(n) ==
    IF n < 2 THEN <<IF n = 1 THEN "1" ELSE "0">>
    ELSE BinDigits(n \div 2) \o <<IF n % 2 = 1 THEN "1" ELSE "0">>

\* f"{n:0{w}b}": the binary digits, zero-padded on the left to w digits
BinPadded(n, w) ==
    LET digits == BinDigits(n)
    IN  [i \in 1..(IF Len(digits) < w THEN w - Len(digits) ELSE 0) |-> "0"] \o digits

\* possible_values == (True, False)
IsTrueFalse(pv) == pv.kind = "tuple" /\ pv.vals = <<1, 0>>

\* suffixes: the module/instance suffixes corresponding to possible_values
Suffixes(split_var, pv) ==
    IF IsTrueFalse(pv)
    THEN <<split_var.name \o <<"_TRUE">>, split_var.name \o <<"_FALSE">> >>
    ELSE [i \in DOMAIN pv.vals |->
            split_var.name \o <<"_">> \o BinPadded(pv.vals[i], split_var.sort.bitwidth)]

\* cs_value_t: the constant of the selector's sort for a candidate value
CaseValueTerm(split_var, cs_value) ==
    IF split_var.sort.kind = "bool" THEN BoolConst(cs_value # 0)
    ELSE BVConst(cs_value, split_var.sort.bitwidth)

\* a dict with every value t replaced by t.replace_vars({from: to})
ReplaceInDict(d, from, to) ==
    [i \in DOMAIN d |-> KV(d[i].k, replace_vars(d[i].v, from, to))]

\* a variant of ChildModel: the child is given no state and no transitions
ChildModelStateless(m, split_var, inputs, pv, i) ==
    LET cs_value_t == CaseValueTerm(split_var, pv.vals[i])
    IN  [NewModel(m.name \o <<"__">> \o Suffixes(split_var, pv)[i]) EXCEPT
            !.inputs = inputs,
            !.outputs = m.outputs,
            !.ufs = m.ufs,
            !.instances = [n \in DOMAIN m.instances |->
                              KV(m.instances[n].k, Instance(m.instances[n].v.model, <<>>))],
            !.logic = ReplaceInDict(m.logic, split_var, cs_value_t),
            !.generated_by = {"CASE_SPLIT"}]

\* the child Model specialized for the i-th candidate value
ChildModel(m, split_var, inputs, pv, i) ==
    LET cs_value_t == CaseValueTerm(split_var, pv.vals[i])
    IN  [NewModel(m.name \o <<"__">> \o Suffixes(split_var, pv)[i]) EXCEPT
            !.inputs = inputs,
            !.outputs = m.outputs,
            !.state = m.state,
            !.ufs = m.ufs,
            \* an instance with bindings is never rebuilt: do_case_split raises first
            !.instances = [n \in DOMAIN m.instances |->
                              KV(m.instances[n].k, Instance(m.instances[n].v.model, <<>>))],
            !.logic = ReplaceInDict(m.logic, split_var, cs_value_t),
            !.default_next = [n \in DOMAIN m.default_next |->
                                 ReplaceInDict(m.default_next[n], split_var, cs_value_t)],
            !.generated_by = {"CASE_SPLIT"}]

\* instances: one Instance per candidate value, bound to the inputs by name
ChildInstances(m, split_var, inputs, pv) ==
    DictOf([i \in DOMAIN pv.vals |->
        KV(m.name \o <<"__">> \o Suffixes(split_var, pv)[i] \o <<"_inst">>,
           Instance(ChildModel(m, split_var, inputs, pv, i),
                    DictOf([j \in DOMAIN inputs |-> KV(inputs[j], inputs[j])])))])

\* the qualified variable f"{self.name}__{suffix}.{o.name}"
ChildOutput(m, suffix, o) == Variable(m.name \o <<"__">> \o suffix \o <<".">> \o o.name, o.sort)

\* new_logic: every output selected among the children's outputs
NewLogic(m, split_var, pv) ==
    LET suffixes == Suffixes(split_var, pv)
    IN  IF split_var.sort.kind = "bool"
        THEN DictOf([n \in DOMAIN m.outputs |->
                KV(m.outputs[n], Ite(split_var, ChildOutput(m, suffixes[1], m.outputs[n]),
                                                ChildOutput(m, suffixes[2], m.outputs[n])))])
        ELSE DictOf([n \in DOMAIN m.outputs |->
                KV(m.outputs[n],
                   MatchConst(split_var,
                              [i \in DOMAIN pv.vals |->
                                  KV(i - 1, ChildOutput(m, suffixes[i], m.outputs[n]))],
                              m.outputs[n].sort))])

\* _do_case_split(split_var, inputs, state, possible_values)
do_case_split(m, split_var, inputs, state, pv) ==
    IF /\ pv.vals # <<>>
       /\ ~HasBitwidth(split_var.sort)
       /\ (~IsTrueFalse(pv) \/ split_var.sort.kind # "bool")
    THEN Raise("AttributeError")  \* split_var.sort.bitwidth, in suffixes or in cs_value_t
    ELSE IF pv.vals # <<>> /\ \E n \in DOMAIN m.instances : m.instances[n].v.inputs # <<>>
    THEN Raise("NameError")       \* input_var, in the first child's instance bindings
    ELSE IF split_var.sort.kind = "bool" /\ m.outputs # <<>> /\ Len(pv.vals) < 2
    THEN Raise("IndexError")      \* suffixes[0] or suffixes[1], in new_logic
    ELSE Return([NewModel(m.name) EXCEPT
                    !.inputs = m.inputs,
                    !.outputs = m.outputs,
                    !.state = <<>>,
                    !.ufs = m.ufs,
                    !.instances = ChildInstances(m, split_var, inputs, pv),
                    !.logic = NewLogic(m, split_var, pv),
                    !.default_next = <<>>,
                    !.generated_by = m.generated_by \cup {"CASE_SPLIT"}])

\* a variant of case_split_input: the selector is left among the inputs
case_split_input_kept(m, input_var, pv) ==
    do_case_split(m, input_var, m.inputs, m.state, pv)

\* _case_split_input(input_var, possible_values)
case_split_input(m, input_var, pv) ==
    do_case_split(m, input_var, ListRemove(m.inputs, input_var), m.state, pv)

\* _case_split_var(state_var, possible_values)
case_split_var(m, state_var, pv) ==
    do_case_split(m, state_var, m.inputs, ListRemove(m.state, state_var), pv)

\* a variant of DefaultValues: the bitvector range starts at 1
DefaultValuesFromOne(sort) ==
    IF sort.kind = "bool" THEN Values("tuple", <<1, 0>>)
    ELSE IF sort.kind = "bv" THEN Values("range", [i \in 1..(Pow2(sort.bitwidth) - 1) |-> i])
    ELSE Values("TypeError", <<>>)

\* possible_values when the caller gives none; "TypeError" for other sorts
DefaultValues(sort) ==
    IF sort.kind = "bool" THEN Values("tuple", <<1, 0>>)
    ELSE IF sort.kind = "bv" THEN Values("range", [i \in 1..Pow2(sort.bitwidth) |-> i - 1])
    ELSE Values("TypeError", <<>>)

\* the first Variable of l named var_name
FirstNamed(l, var_name) == l[CHOOSE i \in DOMAIN l : l[i].name = var_name /\ \A j \in 1..(i - 1) : l[j].name # var_name]

\* a variant of case_split: the outputs are searched after the state
case_split_outputs_too(m, var_name, possible_values) ==
    LET decls == m.inputs \o m.state \o m.outputs
    IN  IF \E i \in DOMAIN decls : decls[i].name = var_name
        THEN LET v  == FirstNamed(decls, var_name)
                 pv == IF possible_values.kind = "none" THEN DefaultValues(v.sort) ELSE possible_values
             IN  IF pv.kind = "TypeError" THEN Raise("TypeError")
                 ELSE IF v \in Range(m.inputs) THEN case_split_input(m, v, pv)
                 ELSE case_split_var(m, v, pv)
        ELSE Raise("KeyError")

\* case_split(var_name, possible_values)
case_split(m, var_name, possible_values) ==
    IF \E i \in DOMAIN m.inputs : m.inputs[i].name = var_name
    THEN LET v  == FirstNamed(m.inputs, var_name)
             pv == IF possible_values.kind = "none" THEN DefaultValues(v.sort) ELSE possible_values
         IN  IF pv.kind = "TypeError" THEN Raise("TypeError") ELSE case_split_input(m, v, pv)
    ELSE IF \E i \in DOMAIN m.state : m.state[i].name = var_name
    THEN LET v  == FirstNamed(m.state, var_name)
             pv == IF possible_values.kind = "none" THEN DefaultValues(v.sort) ELSE possible_values
         IN  IF pv.kind = "TypeError" THEN Raise("TypeError") ELSE case_split_var(m, v, pv)
    ELSE Raise("KeyError")

\* a variant of inputs_left: `inputs = self.inputs`, the list itself
inputs_left_aliased(m, input_var) == ListRemove(m.inputs, input_var)

\* self.inputs after `inputs = self.inputs[:]; inputs.remove(input_var)`:
\* the element is removed from a copy
inputs_left(m, input_var) == m.inputs

\* self.state after `state = self.state[:]; state.remove(state_var)`
state_left(m, state_var) == m.state

\* the receiver as a case_split(var_name, possible_values) call leaves it,
\* whether the call returns or raises; nothing else of it is assigned to
case_split_self(m, var_name, possible_values) ==
    IF \E i \in DOMAIN m.inputs : m.inputs[i].name = var_name
    THEN LET v == FirstNamed(m.inputs, var_name)
         IN  IF possible_values.kind = "none" /\ DefaultValues(v.sort).kind = "TypeError" THEN m
             ELSE [m EXCEPT !.inputs = inputs_left(m, v)]
    ELSE IF \E i \in DOMAIN m.state : m.state[i].name = var_name
    THEN LET v == FirstNamed(m.state, var_name)
         IN  IF possible_values.kind = "none" /\ DefaultValues(v.sort).kind = "TypeError" THEN m
             ELSE [m EXCEPT !.state = state_left(m, v)]
    ELSE m

-----------------------------------------------------------------------------
(* The Models the operations are applied to: a three-level design          *)
(* (top instantiates mid, mid instantiates leaf) that validates, changed   *)
(* by at most MaxEdits edits, each of which a caller of the Model          *)
(* constructor can make.                                                   *)

BV2 == BVSort(2)
N(atom) == <<atom>>
Qualified(inst, port) == <<inst, ".", port>>

VarA == Variable(N("a"), BoolSort)
VarB == Variable(N("b"), BV2)
VarC == Variable(N("c"), BV2)
VarArr == Variable(N("arr"), ArraySort)

LeafModel ==
    LET li == Variable(N("li"), BoolSort)
        lo == Variable(N("lo"), BoolSort)
        ls == Variable(N("ls"), BV2)
    IN  [NewModel(N("leaf")) EXCEPT
            !.inputs = <<li>>, !.outputs = <<lo>>, !.state = <<ls>>,
            !.logic = <<KV(lo, IndexTerm(ls, 0))>>,
            !.default_next = << <<KV(ls, Ite(li, NotTerm(ls), ls))>> >>]

MidModel ==
    LET mi == Variable(N("mi"), BoolSort)
        mj == Variable(N("mj"), BoolSort)
        mo == Variable(N("mo"), BoolSort)
        li == Variable(N("li"), BoolSort)
    IN  [NewModel(N("mid")) EXCEPT
            !.inputs = <<mi, mj>>, !.outputs = <<mo>>,
            !.instances = <<KV(N("inst"), Instance(LeafModel, <<KV(li, mi)>>))>>,
            !.logic = <<KV(mo, Ite(mj, Variable(Qualified("inst", "lo"), BoolSort), mi))>>]

TopModel ==
    LET x  == Variable(N("x"), BoolSort)
        o  == Variable(N("o"), BoolSort)
        s  == Variable(N("s"), BV2)
        f  == Variable(N("f"), BoolSort)
        mi == Variable(N("mi"), BoolSort)
        mj == Variable(N("mj"), BoolSort)
    IN  [NewModel(N("top")) EXCEPT
            !.inputs = <<x>>, !.outputs = <<o>>, !.state = <<s>>,
            !.ufs = <<UFPlaceholder(N("f"), BoolSort, <<x>>, FALSE)>>,
            !.next_ufs = <<UFPlaceholder(N("g"), BV2, <<s>>, TRUE)>>,
            !.instances = <<KV(N("sub"), Instance(MidModel, <<KV(mi, x), KV(mj, f)>>))>>,
            !.logic = <<KV(o, Variable(Qualified("sub", "mo"), BoolSort))>>,
            !.default_next = << <<KV(s, Ite(x, NotTerm(s), s))>> >>,
            !.assertions = <<x>>]

\* default_next[0][key] = value
SetNext(m, key, value) ==
    [m EXCEPT !.default_next =
        IF @ = <<>> THEN << <<KV(key, value)>> >>
        ELSE [@ EXCEPT ![1] = DictSet(@, key, value)]]

\* the Model m after one edit of its constructor arguments
Edit(m, kind) ==
    CASE kind = "in_a"       -> [m EXCEPT !.inputs = Append(@, VarA)]
      [] kind = "in_a_again" -> [m EXCEPT !.inputs = @ \o <<VarA, VarA>>]
      [] kind = "in_dotted"  -> [m EXCEPT !.inputs = Append(@, Variable(Qualified("a", "b"), BoolSort))]
      [] kind = "out_a"      -> [m EXCEPT !.outputs = Append(@, VarA)]
      [] kind = "out_a_again" -> [m EXCEPT !.outputs = @ \o <<VarA, VarA>>]
      [] kind = "state_a"    -> [m EXCEPT !.state = Append(@, VarA)]
      [] kind = "state_a_again" -> [m EXCEPT !.state = @ \o <<VarA, VarA>>]
      [] kind = "state_arr"  -> [m EXCEPT !.state = Append(@, VarArr)]
      [] kind = "state_b_bits" ->
            SetNext(SetNext([m EXCEPT !.state = Append(@, VarB)],
                            IndexTerm(VarB, 1), BoolConst(TRUE)),
                    IndexTerm(VarB, 0), BoolConst(FALSE))
      [] kind = "uf_a"       -> [m EXCEPT !.ufs = Append(@, UFPlaceholder(N("a"), BoolSort, <<>>, TRUE))]
      [] kind = "uf_a_again" ->
            [m EXCEPT !.ufs = @ \o << UFPlaceholder(N("a"), BoolSort, <<>>, TRUE),
                                      UFPlaceholder(N("a"), BoolSort, <<>>, TRUE) >>]
      [] kind = "nextuf_a"   -> [m EXCEPT !.next_ufs = Append(@, UFPlaceholder(N("a"), BoolSort, <<>>, TRUE))]
      [] kind = "nextuf_a_again" ->
            [m EXCEPT !.next_ufs = @ \o << UFPlaceholder(N("a"), BoolSort, <<>>, TRUE),
                                           UFPlaceholder(N("a"), BoolSort, <<>>, TRUE) >>]
      [] kind = "logic_a"    -> [m EXCEPT !.logic = DictSet(@, VarA, BoolConst(TRUE))]
      [] kind = "next_a"     -> SetNext(m, VarA, BoolConst(FALSE))
      [] kind = "next2_a"    -> [m EXCEPT !.default_next = Append(@, <<KV(VarA, BoolConst(TRUE))>>)]
      [] kind = "logic_state" ->
            IF m.state = <<>> THEN m
            ELSE [m EXCEPT !.logic = DictSet(@, m.state[1], NotTerm(m.state[1]))]
      [] kind = "bad_logic"  ->
            [m EXCEPT !.state = Append(@, VarC), !.logic = DictSet(@, VarC, NotTerm(BoolNot(VarC)))]
      [] kind = "bad_next"   ->
            SetNext([m EXCEPT !.state = Append(@, VarC)], VarC, Ite(VarC, VarC, VarC))
      [] kind = "bad_assert" -> [m EXCEPT !.assertions = Append(@, BoolNot(VarB))]
      [] kind = "bad_assume" -> [m EXCEPT !.assumptions = Append(@, BoolNot(VarB))]
      [] kind = "good_assume" -> [m EXCEPT !.assumptions = Append(@, NotTerm(VarA))]
      [] kind = "bind_drop"  ->
            IF m.instances = <<>> THEN m
            ELSE [m EXCEPT !.instances[1].v.inputs = Tail(@)]
      [] kind = "bind_clear" ->
            IF m.instances = <<>> THEN m
            ELSE [m EXCEPT !.instances[1].v.inputs = <<>>]
      [] kind = "bind_extra" ->
            IF m.instances = <<>> THEN m
            ELSE [m EXCEPT !.instances[1].v.inputs = DictSet(@, VarA, BoolConst(TRUE))]
      [] kind = "bind_resort" ->
            IF m.instances = <<>> \/ m.instances[1].v.inputs = <<>> THEN m
            ELSE [m EXCEPT !.instances[1].v.inputs[1].k.sort = BV2]
      [] kind = "no_instances" -> [m EXCEPT !.instances = <<>>]

\* the edits of the top Model, and those made inside a descendant
TopEdits ==
    << "in_a", "in_a_again", "in_dotted", "out_a", "out_a_again", "state_a", "state_a_again",
       "state_arr", "state_b_bits", "uf_a", "uf_a_again", "nextuf_a", "nextuf_a_again",
       "logic_a", "next_a", "next2_a", "logic_state", "bad_logic", "bad_next", "bad_assert",
       "bad_assume", "good_assume", "bind_drop", "bind_clear", "bind_extra", "bind_resort",
       "no_instances" >>
InnerEdits == << "state_a", "in_a_again", "bad_logic", "bad_assert", "bind_extra", "logic_state" >>

\* every edit, as [level, kind]: level 0 is top, 1 is mid, 2 is leaf
AllEdits ==
    [i \in DOMAIN TopEdits |-> [level |-> 0, kind |-> TopEdits[i]]]
    \o [i \in DOMAIN InnerEdits |-> [level |-> 1, kind |-> InnerEdits[i]]]
    \o [i \in DOMAIN InnerEdits |-> [level |-> 2, kind |-> InnerEdits[i]]]

\* the edit made to the Model `level` instances below m (along first instances)
RECURSIVE EditAt(_, _, _)
EditAt(m, level, kind) ==
    IF level = 0 THEN Edit(m, kind)
    ELSE IF m.instances = <<>> THEN m
    ELSE [m EXCEPT !.instances[1].v.model = EditAt(@, level - 1, kind)]

\* the edits numbered by S, made in the order of AllEdits
RECURSIVE ApplyEdits(_, _, _)
ApplyEdits(m, S, i) ==
    IF i > Len(AllEdits) THEN m
    ELSE ApplyEdits(IF i \in S THEN EditAt(m, AllEdits[i].level, AllEdits[i].kind) ELSE m, S, i + 1)

\* the sets of at most k edit numbers
RECURSIVE EditSets(_)
EditSets(k) ==
    IF k = 0 THEN {{}}
    ELSE LET smaller == EditSets(k - 1)
         IN  smaller \cup {S \cup {e} : S \in smaller, e \in DOMAIN AllEdits}

ValidationModels == {ApplyEdits(TopModel, S, 1) : S \in EditSets(MaxEdits)}

-----------------------------------------------------------------------------
(* The validation specification: validate() called on a drawn Model.       *)

\* no to_uclid_with_children call has been made
NotEmitted == [status |-> "none"]

\* no fix_var_refs call, no verilog_to_model call, no Guidance object
NoRewrite == [status |-> "none"]
NoTranslation == [status |-> "none"]
NoLowering == [status |-> "none"]
NoGuidance == [status |-> "none"]
NoAnswer == [op |-> "none", n |-> 0]

OthersIdle ==
    /\ rewrite = NoRewrite
    /\ translation = NoTranslation
    /\ lowering = NoLowering
    /\ guidance = NoGuidance
    /\ answer = NoAnswer

\* no case_split call has been made
NoSplit == [var_name |-> <<>>, values |-> NoValues, result |-> [status |-> "none"]]

Init ==
    /\ model \in ValidationModels
    /\ hashSeed \in {0, 1}
    /\ hist = <<>>
    /\ split = NoSplit
    /\ submodels = <<>>
    /\ uclid = NotEmitted
    /\ OthersIdle

\* model.validate(): the call's errs list is recorded; no field is assigned
Validate ==
    /\ Len(hist) < MaxCalls
    /\ hist' = Append(hist, validate_errs(model, hashSeed,
                                          NewErrs(IF hist = <<>> THEN <<>> ELSE hist[Len(hist)])))
    /\ UNCHANGED <<model, hashSeed, split, submodels, uclid, otherVars>>

Next == Validate

Spec == Init /\ [][Next]_vars

-----------------------------------------------------------------------------
(* Properties of validate().                                               *)

\* validate() has been called; its first call accepted / rejected the Model
Called == hist # <<>>
Accepted == Called /\ hist[1] = <<>>
Rejected == Called /\ hist[1] # <<>>

\* m and the model of every instance reachable from it
RECURSIVE Tree(_)
Tree(m) == {m} \cup UNION {Tree(m.instances[i].v.model) : i \in DOMAIN m.instances}

\* the models strictly below m
Below(m) == UNION {Tree(m.instances[i].v.model) : i \in DOMAIN m.instances}

BindingsExact(inst) == DictKeySet(inst.inputs) = Range(inst.model.inputs)

\* the checks validate() makes on m itself find nothing
LocallyClean(m) ==
    /\ DeclErrs(m) = <<>>
    /\ AssignErrs(m) = <<>>
    /\ TypeErrs(m) = <<>>
    /\ \A i \in DOMAIN m.instances : BindingsExact(m.instances[i].v)

LogicNames(m) == VariableKeyNames(m.logic)
TransitionNames(m) == NextKeys(m)

\* C2: a model in which an input or a UF placeholder (combinational or
\* sequential) has an entry in logic or in default_next is rejected.
C2_InputOrUFEntryRejected ==
    (/\ Called
     /\ \E v \in Range(model.inputs) \cup Range(model.ufs) \cup Range(model.next_ufs) :
            v.name \in LogicNames(model) \cup TransitionNames(model))
    => Rejected

\* C3: an accepted model gives every non-array state variable exactly one of
\* an entry in logic and an entry in default_next.
C3_StateExactlyOneEntry ==
    Accepted =>
        \A v \in Range(model.state) :
            v.sort.kind # "array" =>
                (v.name \in LogicNames(model)) # (v.name \in TransitionNames(model))

\* the positions of a declaration list holding name s
Holding(l, s) == {i \in DOMAIN l : l[i].name = s}

\* s is declared twice in one category, or in two categories other than as an
\* output and a UF placeholder
Collides(m, s) ==
    LET nIn   == Cardinality(Holding(m.inputs, s))
        nOut  == Cardinality(Holding(m.outputs, s))
        nSt   == Cardinality(Holding(m.state, s))
        nUf   == Cardinality(Holding(m.ufs, s))
        nNext == Cardinality(Holding(m.next_ufs, s))
    IN  \/ nIn > 1 \/ nOut > 1 \/ nSt > 1 \/ nUf > 1 \/ nNext > 1
        \/ nIn > 0 /\ nOut + nSt + nUf + nNext > 0
        \/ nOut > 0 /\ nSt > 0
        \/ nSt > 0 /\ nUf + nNext > 0
        \/ nUf > 0 /\ nNext > 0

\* C4: a model in which a name is declared twice in a category, or in two
\* categories other than output and UF placeholder, is rejected.
C4_CollisionRejected ==
    (Called /\ \E v \in Range(model.inputs) \cup Range(model.outputs) \cup Range(model.state)
                        \cup Range(model.ufs) \cup Range(model.next_ufs) : Collides(model, v.name))
    => Rejected

\* the state variable named s has a transition keyed by one of its bits
HasBitKeyedTransition(m, s) ==
    \E n \in DOMAIN m.default_next : \E i \in DOMAIN m.default_next[n] :
        LET key == m.default_next[n][i].k
        IN  key.op = "index" /\ key.args[1].name = s

\* C5: a state variable whose transitions are keyed by its bits or slices
\* counts as having a transition: validate() does not report it unassigned.
C5_BitKeyedTransitionCounts ==
    Called =>
        \A i \in DOMAIN hist[1] :
            ~(hist[1][i].kind = "state_unassigned" /\ HasBitKeyedTransition(model, hist[1][i].who))

\* the binding diagnostics of the first call about instance subname
BindingDiags(kind, subname) ==
    {i \in DOMAIN hist[1] : hist[1][i].kind = kind /\ hist[1][i].who = subname}

\* C6: validate() reports a missing binding exactly for the declared inputs an
\* instance does not bind, an unknown binding exactly for the keys that are no
\* declared input, nothing for an instance whose keys are the declared inputs,
\* and rejects a model holding a mismatched instance anywhere below it.
C6_BindingKeysExact ==
    Called =>
        /\ \A i \in DOMAIN model.instances :
            LET inst   == model.instances[i].v
                needed == Range(inst.model.inputs)
                given  == DictKeySet(inst.inputs)
            IN  /\ {hist[1][j].what : j \in BindingDiags("missing_binding", model.instances[i].k)}
                       = {v.name : v \in needed \ given}
                /\ {hist[1][j].what : j \in BindingDiags("unknown_binding", model.instances[i].k)}
                       = {v.name : v \in given \ needed}
                /\ Cardinality(BindingDiags("missing_binding", model.instances[i].k))
                       = Cardinality(needed \ given)
                /\ Cardinality(BindingDiags("unknown_binding", model.instances[i].k))
                       = Cardinality(given \ needed)
        /\ (\E d \in Tree(model) : \E i \in DOMAIN d.instances : ~BindingsExact(d.instances[i].v))
               => Rejected

\* C6 witness: a binding for an undeclared input, and one input left unbound,
\* have been reported
C6_MismatchReported ==
    /\ Called
    /\ \E i \in DOMAIN model.instances :
        /\ BindingDiags("unknown_binding", model.instances[i].k) # {}
        /\ BindingDiags("missing_binding", model.instances[i].k) # {}

\* C7: a model with an ill-typed term in logic, default_next, assertions or
\* assumptions is rejected.
C7_IllTypedRejected ==
    (/\ Called
     /\ \/ \E i \in DOMAIN model.logic : ~typecheck(model.logic[i].v)
        \/ \E n \in DOMAIN model.default_next : \E i \in DOMAIN model.default_next[n] :
               ~typecheck(model.default_next[n][i].v)
        \/ \E i \in DOMAIN model.assertions : ~typecheck(model.assertions[i])
        \/ \E i \in DOMAIN model.assumptions : ~typecheck(model.assumptions[i]))
    => Rejected

-----------------------------------------------------------------------------
(* The case-split specification: case_split() called on a drawn Model.     *)

\* the widest bitvector selector drawn
MaxWidth == 2

SelectorSorts == {BoolSort, BVSort(1), BVSort(MaxWidth), ArraySort}

\* a Bool term reading the selector (the selector itself, or its bit 0)
SelBit(sel) ==
    IF sel.sort.kind = "bool" THEN sel
    ELSE IF sel.sort.kind = "bv" THEN IndexTerm(sel, 0)
    ELSE BoolConst(TRUE)

\* a model with no inputs, for an instance without bindings
ConstModel ==
    LET co == Variable(N("co"), BoolSort)
    IN  [NewModel(N("konst")) EXCEPT !.outputs = <<co>>, !.logic = <<KV(co, BoolConst(TRUE))>>]

\* the design that is split: selector sel of the given sort, declared as an
\* input or as a state variable, read by the logic, the transitions and
\* (for "bind_sel") the bindings of an instance
SplitModel(sort, role, inst, nOut, withUF) ==
    LET sel == Variable(N("sel"), sort)
        x   == Variable(N("x"), BoolSort)
        o   == Variable(N("o"), BoolSort)
        p   == Variable(N("p"), BV2)
        s   == Variable(N("s"), BV2)
        f   == Variable(N("f"), BoolSort)
        li  == Variable(N("li"), BoolSort)
    IN  [NewModel(N("m")) EXCEPT
            !.inputs = IF role = "input" THEN <<sel, x>> ELSE <<x>>,
            !.outputs = SubSeq(<<o, p>>, 1, nOut),
            !.state = IF role = "input" THEN <<s>> ELSE <<s, sel>>,
            !.ufs = IF withUF THEN <<UFPlaceholder(N("f"), BoolSort, <<x>>, FALSE)>> ELSE <<>>,
            !.next_ufs = IF withUF THEN <<UFPlaceholder(N("g"), BV2, <<s>>, TRUE)>> ELSE <<>>,
            !.instances =
                CASE inst = "none"     -> <<>>
                  [] inst = "unbound"  -> <<KV(N("u"), Instance(ConstModel, <<>>))>>
                  [] inst = "bind_x"   -> <<KV(N("u"), Instance(LeafModel, <<KV(li, x)>>))>>
                  [] inst = "bind_sel" -> <<KV(N("u"), Instance(LeafModel, <<KV(li, SelBit(sel))>>))>>,
            !.logic = SubSeq(<<KV(o, Ite(SelBit(sel), IF withUF THEN f ELSE x, IndexTerm(s, 0))),
                               KV(p, Ite(SelBit(sel), s, NotTerm(s)))>>, 1, nOut),
            !.default_next =
                << <<KV(s, Ite(SelBit(sel), NotTerm(s), s))>>
                   \o (IF role = "state" /\ sort.kind # "array" THEN <<KV(sel, NotTerm(sel))>> ELSE <<>>) >>]

SplitModels ==
    {SplitModel(sort, role, inst, nOut, withUF) :
        sort \in SelectorSorts, role \in {"input", "state"},
        inst \in {"none", "unbound", "bind_x", "bind_sel"}, nOut \in 0..2, withUF \in BOOLEAN}

\* the possible_values arguments drawn
ValueChoices ==
    {NoValues, Values("tuple", <<1, 0>>), Values("list", <<1, 0>>), Values("list", <<0, 1>>),
     Values("list", <<>>), Values("list", <<0>>), Values("list", <<1, 1>>),
     Values("list", <<2, 0>>), Values("list", <<3, 1>>)}

NameChoices == {N("sel"), N("x"), N("s"), N("o"), N("nosuch")}

\* the declarations named var_name that case_split looks at: inputs, then state
Candidates(m, var_name) ==
    {v \in Range(m.inputs) \cup Range(m.state) : v.name = var_name}

\* every value can be a value of every variable the name may select
ValuesFit(m, var_name, pv) ==
    \A v \in Candidates(m, var_name) : \A i \in DOMAIN pv.vals :
        CASE v.sort.kind = "bool" -> pv.vals[i] < 2
          [] v.sort.kind = "bv"   -> pv.vals[i] < Pow2(v.sort.bitwidth)
          [] OTHER                -> TRUE

SplitInit ==
    /\ model \in SplitModels
    /\ hashSeed = 0
    /\ hist = <<>>
    /\ split = NoSplit
    /\ submodels = <<>>
    /\ uclid = NotEmitted
    /\ OthersIdle

\* model.case_split(var_name, possible_values)
CaseSplit(var_name, pv) ==
    /\ split.result.status = "none"
    /\ ValuesFit(model, var_name, pv)
    /\ split' = [var_name |-> var_name, values |-> pv, result |-> case_split(model, var_name, pv)]
    /\ model' = case_split_self(model, var_name, pv)
    /\ UNCHANGED <<hashSeed, hist, submodels, uclid, otherVars>>

SplitNext == \E var_name \in NameChoices : \E pv \in ValueChoices : CaseSplit(var_name, pv)

SplitSpec == SplitInit /\ [][SplitNext]_vars

-----------------------------------------------------------------------------
(* Properties of case_split().                                             *)

SplitOk == split.result.status = "ok"
SplitFailed == split.result.status \notin {"none", "ok"}

NamesOf(l) == {l[i].name : i \in DOMAIN l}

\* the selector of the call, as case_split finds it
SelectorIsInput == split.var_name \in NamesOf(model.inputs)
SelectorIsState == ~SelectorIsInput /\ split.var_name \in NamesOf(model.state)
Selector ==
    IF SelectorIsInput THEN FirstNamed(model.inputs, split.var_name)
    ELSE FirstNamed(model.state, split.var_name)

\* the generated child models of the returned Model
Children == {split.result.model.instances[i].v : i \in DOMAIN split.result.model.instances}

\* C9, as claimed: the selector is no longer a declared input, output or state
\* variable of the returned Model.
C9_SelectorUndeclared ==
    SplitOk =>
        split.var_name \notin NamesOf(split.result.model.inputs)
                              \cup NamesOf(split.result.model.outputs)
                              \cup NamesOf(split.result.model.state)

\* C9, amended: the returned Model declares no state, hence not the selector,
\* and declares the inputs and outputs of M unchanged, so that an input
\* selector is still a declared input of it; an input selector is removed
\* from the inputs, and the bindings, of every generated child.
C9_SelectorKeptAsInput ==
    SplitOk =>
        /\ split.result.model.state = <<>>
        /\ split.result.model.inputs = model.inputs
        /\ split.result.model.outputs = model.outputs
        /\ SelectorIsInput =>
            \A c \in Children :
                /\ Selector \notin Range(c.model.inputs)
                /\ Selector \notin DictKeySet(c.inputs)

\* C9 witness: an input selector has been split into at least two children
C9_InputSelectorSplit ==
    /\ SplitOk
    /\ SelectorIsInput
    /\ Cardinality(Children) >= 2
    /\ split.var_name \in NamesOf(split.result.model.inputs)

\* the terms of a child in which the selector is to be replaced
ChildTerms(c) ==
    {c.model.logic[i].v : i \in DOMAIN c.model.logic}
    \cup UNION {{c.model.default_next[n][i].v : i \in DOMAIN c.model.default_next[n]} :
                    n \in DOMAIN c.model.default_next}
    \cup UNION {{c.model.instances[n].v.inputs[i].v : i \in DOMAIN c.model.instances[n].v.inputs} :
                    n \in DOMAIN c.model.instances}

\* C10: case_split with the default values on a declared Bool or bitvector
\* selector completes, also for a model with nested instances, and no term of
\* a child's logic, transitions or instance bindings refers to the selector.
C10_SelectorSubstituted ==
    (/\ split.result.status # "none"
     /\ split.values = NoValues
     /\ SelectorIsInput \/ SelectorIsState
     /\ Selector.sort.kind \in {"bool", "bv"})
    => /\ SplitOk
       /\ \A c \in Children : \A t \in ChildTerms(c) : Selector \notin TermVars(t)

\* the returned Model
Returned == split.result.model

\* a qualified name f"{qualifier}.{port}", cut at its first "."
DotAt(name) == CHOOSE i \in DOMAIN name : name[i] = "." /\ \A j \in 1..(i - 1) : name[j] # "."
QualifierOf(name) == SubSeq(name, 1, DotAt(name) - 1)
PortOf(name) == SubSeq(name, DotAt(name) + 1, Len(name))

\* the qualified reference v names an output of an instance declared in m
Resolves(m, v) ==
    \E i \in DOMAIN m.instances :
        /\ m.instances[i].k = QualifierOf(v.name)
        /\ PortOf(v.name) \in NamesOf(m.instances[i].v.model.outputs)

\* t selects, on the selector, among qualified variables
IsSelection(t) ==
    /\ t.op \in {"ite", "match"}
    /\ t.args[1] = Selector
    /\ \A i \in 2..Len(t.args) : isVariable(t.args[i]) /\ HasDot(t.args[i].name)

\* C11: in the returned Model every output is defined by a selection over
\* qualified child outputs, and every qualified reference X.o resolves: X is
\* the name of an instance declared in the returned Model's instances and o
\* is a declared output of that instance's model.
C11_QualifiedOutputsResolve ==
    SplitOk =>
        \A o \in Range(Returned.outputs) :
            /\ DictHas(Returned.logic, o)
            /\ IsSelection(DictGet(Returned.logic, o))
            /\ \A v \in TermVars(DictGet(Returned.logic, o)) : HasDot(v.name) => Resolves(Returned, v)

\* the children specialised for v: their logic and transitions are M's with
\* the selector replaced by the constant v
ChildrenFor(v) ==
    {c \in Children :
        /\ c.model.logic = ReplaceInDict(model.logic, Selector, CaseValueTerm(Selector, v))
        /\ c.model.default_next =
               [n \in DOMAIN model.default_next |->
                   ReplaceInDict(model.default_next[n], Selector, CaseValueTerm(Selector, v))]}

\* C12: for a bitvector selector split with an explicit value set, the
\* selection of every output is keyed by the selector value: for each
\* candidate value v, the branch under key v is the output of the child
\* specialised for v, whatever the position of v in the value set.
C12_MatchKeyedByValue ==
    (SplitOk /\ Selector.sort.kind = "bv" /\ split.values # NoValues) =>
        \A o \in Range(Returned.outputs) : \A v \in Range(split.values.vals) :
            LET t == DictGet(Returned.logic, o)
            IN  \E j \in DOMAIN t.keys :
                    /\ t.keys[j] = v
                    /\ \E c \in ChildrenFor(v) :
                           t.args[j + 1] = Variable(c.model.name \o <<".">> \o o.name, o.sort)

-----------------------------------------------------------------------------
(* The meaning of a Model: the values of its outputs and of its next state *)
(* under a valuation of its inputs, state and uninterpreted functions.     *)

\* the value of a term with no value: an unbound name, a match with no branch
Undefined == 0 - 1

\* the values of a sort (an array is opaque: one value)
ValuesOf(sort) ==
    CASE sort.kind = "bool" -> {0, 1}
      [] sort.kind = "bv"   -> 0..(Pow2(sort.bitwidth) - 1)
      [] OTHER              -> {0}

\* bitwise and, or of two naturals
RECURSIVE BitAnd(_, _), BitOr(_, _)
BitAnd(a, b) == IF a = 0 \/ b = 0 THEN 0 ELSE (a % 2) * (b % 2) + 2 * BitAnd(a \div 2, b \div 2)
BitOr(a, b) ==
    IF a = 0 THEN b ELSE IF b = 0 THEN a
    ELSE (IF a % 2 = 1 \/ b % 2 = 1 THEN 1 ELSE 0) + 2 * BitOr(a \div 2, b \div 2)

\* logical shifts of a value of width w; a shift by w or more gives 0
ShiftRight(a, n, w) == IF n >= w THEN 0 ELSE a \div Pow2(n)
ShiftLeft(a, n, w) == IF n >= w THEN 0 ELSE (a * Pow2(n)) % Pow2(w)

\* the value of t under env, a function from names to values
RECURSIVE Eval(_, _)
Eval(t, env) ==
    LET arg(i) == Eval(t.args[i], env)
    IN  CASE t.op = "var"   -> IF t.name \in DOMAIN env THEN env[t.name] ELSE Undefined
          [] t.op = "const" -> t.val
          [] t.op = "not"   -> IF arg(1) = Undefined THEN Undefined
                               ELSE IF t.sort.kind = "bool" THEN 1 - arg(1)
                               ELSE Pow2(t.sort.bitwidth) - 1 - arg(1)
          [] t.op = "index" -> IF arg(1) = Undefined THEN Undefined
                               ELSE (arg(1) \div Pow2(t.val)) % 2
          [] t.op = "ite"   -> IF arg(1) = Undefined THEN Undefined
                               ELSE IF arg(1) = 1 THEN arg(2) ELSE arg(3)
          [] t.op = "zpad"  -> arg(1)
          [] t.op \in {"bvand", "bvor", "bvsrl", "bvsll"} ->
                IF arg(1) = Undefined \/ arg(2) = Undefined THEN Undefined
                ELSE (CASE t.op = "bvand" -> BitAnd(arg(1), arg(2))
                        [] t.op = "bvor"  -> BitOr(arg(1), arg(2))
                        [] t.op = "bvsrl" -> ShiftRight(arg(1), arg(2), t.sort.bitwidth)
                        [] t.op = "bvsll" -> ShiftLeft(arg(1), arg(2), t.sort.bitwidth))
          [] t.op = "match" -> IF \E j \in DOMAIN t.keys : t.keys[j] = arg(1)
                               THEN arg(1 + CHOOSE j \in DOMAIN t.keys :
                                           /\ t.keys[j] = arg(1)
                                           /\ \A k \in 1..(j - 1) : t.keys[k] # arg(1))
                               ELSE Undefined

\* the valuation an instance's model is evaluated under: its bound inputs have
\* the values of their bindings, every other name the value it has in env
InstanceEnv(inst, env) ==
    [n \in DOMAIN env \cup {inst.inputs[i].k.name : i \in DOMAIN inst.inputs} |->
        IF \E i \in DOMAIN inst.inputs : inst.inputs[i].k.name = n
        THEN Eval(DictGet(inst.inputs, CHOOSE k \in DictKeySet(inst.inputs) : k.name = n), env)
        ELSE env[n]]

\* the name under which a parent refers to output o of its instance inst_name
QualifiedOutput(inst_name, o) == inst_name \o <<".">> \o o.name

\* env, extended with the value of every output of every instance of m
RECURSIVE FullEnv(_, _)
FullEnv(m, env) ==
    LET ports == {<<i, o>> \in (DOMAIN m.instances) \X (UNION {Range(m.instances[j].v.model.outputs) :
                                                                  j \in DOMAIN m.instances}) :
                      o \in Range(m.instances[i].v.model.outputs)}
        named(n) == CHOOSE p \in ports : QualifiedOutput(m.instances[p[1]].k, p[2]) = n
        value(p) == LET inst == m.instances[p[1]].v
                    IN  IF DictHas(inst.model.logic, p[2])
                        THEN Eval(DictGet(inst.model.logic, p[2]),
                                  FullEnv(inst.model, InstanceEnv(inst, env)))
                        ELSE Undefined
    IN  [n \in DOMAIN env \cup {QualifiedOutput(m.instances[p[1]].k, p[2]) : p \in ports} |->
            IF n \in DOMAIN env THEN env[n] ELSE value(named(n))]

\* the value of every output of m under env
OutputValues(m, env) ==
    [o \in Range(m.outputs) |->
        IF DictHas(m.logic, o) THEN Eval(DictGet(m.logic, o), FullEnv(m, env)) ELSE Undefined]

\* the next value of every state variable of m that has a transition entry
NextValues(m, env) ==
    LET entries == UNION {Range(m.default_next[n]) : n \in DOMAIN m.default_next}
    IN  [s \in {e.k : e \in {e \in entries : e.k \in Range(m.state)}} |->
            Eval((CHOOSE e \in entries : e.k = s).v, FullEnv(m, env))]

\* the valuations of the inputs, state and uninterpreted functions of m
Valuations(m) ==
    LET decls == Range(m.inputs) \cup Range(m.state)
                 \cup {Variable(m.ufs[i].name, m.ufs[i].sort) : i \in DOMAIN m.ufs}
    IN  {env \in [NamesOf(m.inputs) \cup NamesOf(m.state) \cup NamesOf(m.ufs) -> 0..(Pow2(MaxWidth) - 1)] :
            \A v \in decls : env[v.name] \in ValuesOf(v.sort)}

\* the candidate values of the call
CandidateValues ==
    IF split.values = NoValues THEN Range(DefaultValues(Selector.sort).vals)
    ELSE Range(split.values.vals)

\* C13: for every candidate value c of the selector and every valuation of
\* the inputs and state of M in which the selector is c, the returned
\* hierarchical Model has the output values of M, and the child specialised
\* for c has the next-state values of M.
C13_SplitEquivalent ==
    SplitOk =>
        \A c \in CandidateValues : \A env \in Valuations(model) :
            env[Selector.name] = c =>
                /\ OutputValues(Returned, env) = OutputValues(model, env)
                /\ ChildrenFor(c) # {}
                /\ \A ch \in ChildrenFor(c) :
                       NextValues(ch.model, InstanceEnv(ch, env)) = NextValues(model, env)

-----------------------------------------------------------------------------
(* Properties of the generated children and of failing calls.              *)

EntriesOf(m, v) == {n \in DOMAIN m.default_next : DictHas(m.default_next[n], v)}

\* C15: the returned Model declares no state variable and has no transition
\* entry, and every state variable of M other than the selector is declared
\* in every generated child, with the logic or transition entries it has in M.
C15_StateMovedToChildren ==
    SplitOk =>
        /\ Returned.state = <<>>
        /\ \A n \in DOMAIN Returned.default_next : Returned.default_next[n] = <<>>
        /\ \A v \in Range(model.state) : ~DictHas(Returned.logic, v)
        /\ \A c \in Children : \A v \in Range(model.state) \ {Selector} :
               /\ v \in Range(c.model.state)
               /\ DictHas(model.logic, v) => DictHas(c.model.logic, v)
               /\ EntriesOf(c.model, v) = EntriesOf(model, v)

\* C15 witness: a state selector split into children that keep the state s
C15_StateSelectorSplit ==
    /\ SplitOk
    /\ SelectorIsState
    /\ Cardinality(Children) >= 2
    /\ \E v \in Range(model.state) \ {Selector} :
           \A c \in Children : v \in Range(c.model.state) /\ EntriesOf(c.model, v) # {}

\* C16: case_split with a name that is neither a declared input nor a
\* declared state variable of M, a name declared only as an output included,
\* raises KeyError: no Model is returned and M is left unchanged.
C16_UnknownSelectorFails ==
    [][(/\ split.result.status = "none"
        /\ split'.result.status # "none"
        /\ split'.var_name \notin NamesOf(model.inputs) \cup NamesOf(model.state))
       => (split'.result = Raise("KeyError") /\ model' = model)]_vars

\* C16 witness: a call naming an output only has failed
C16_OutputSelectorFailed ==
    /\ split.result = Raise("KeyError")
    /\ split.var_name \in NamesOf(model.outputs)
    /\ split.var_name \notin NamesOf(model.inputs) \cup NamesOf(model.state)

\* C17: case_split on a declared selector whose sort is neither Bool nor a
\* bitvector fails and returns no Model, with the default value set and with
\* any explicit value set, the empty one included.
C17_UnsupportedSortFails ==
    (/\ split.result.status # "none"
     /\ SelectorIsInput \/ SelectorIsState
     /\ Selector.sort.kind \notin {"bool", "bv"})
    => SplitFailed

-----------------------------------------------------------------------------
(* Model._get_submodules, Model.to_uclid, Model.to_uclid_with_children     *)

\* _get_submodules(submodel_list, visited_submodel_names), the two arguments
\* as the record acc; instances_from(m, i, acc) is the loop over
\* self.instances.values() from the i-th instance on
RECURSIVE get_submodules(_, _), instances_from(_, _, _)
instances_from(m, i, acc) ==
    IF i > Len(m.instances) THEN acc
    ELSE LET sub == m.instances[i].v.model
         IN  instances_from(m, i + 1,
                            IF sub.name \notin acc.visited THEN get_submodules(sub, acc) ELSE acc)

get_submodules(m, acc) ==
    LET after == instances_from(m, 1, acc)
    IN  [list |-> Append(after.list, m), visited |-> after.visited \cup {m.name}]

\* to_uclid(): the declarations are collected, then line 264 raises
to_uclid(m) == Raise("Exception")

\* to_uclid_with_children(): the texts of the submodels joined, or the first
\* exception raised by a to_uclid() call
to_uclid_with_children(m) ==
    LET subs  == get_submodules(m, [list |-> <<>>, visited |-> {}]).list
        texts == [i \in DOMAIN subs |-> to_uclid(subs[i])]
    IN  IF \E i \in DOMAIN texts : texts[i].status # "ok"
        THEN texts[CHOOSE i \in DOMAIN texts :
                       texts[i].status # "ok" /\ \A j \in 1..(i - 1) : texts[j].status = "ok"]
        ELSE [status |-> "ok", text |-> [i \in DOMAIN texts |-> texts[i].text]]

-----------------------------------------------------------------------------
(* The emitter specification: the traversal and the emission of a drawn    *)
(* instance tree of depth at most two, every model with at most two        *)
(* instances, the model names drawn from MaxNames names.                   *)

\* the number of distinct model names
MaxNames == 4

ModelNames == {N(<<"A", "B", "C", "D", "E">>[i]) : i \in 1..MaxNames}

\* the keys of the instances of a model
InstanceNames == <<N("i1"), N("i2")>>

\* Model(name, instances={...}): one Instance, without inputs, per model of kids
Node(name, kids) ==
    [NewModel(name) EXCEPT
        !.instances = [i \in DOMAIN kids |-> KV(InstanceNames[i], Instance(kids[i], <<>>))]]

\* the lists of at most two models of S
KidLists(S) == {<<>>} \cup {<<a>> : a \in S} \cup {<<a, b>> : a \in S, b \in S}

LeafModels == {Node(n, <<>>) : n \in ModelNames}
ShallowModels == {Node(n, kids) : n \in ModelNames, kids \in KidLists(LeafModels)}
EmitModels == {Node(n, kids) : n \in ModelNames, kids \in KidLists(ShallowModels)}

EmitInit ==
    /\ model \in EmitModels \cup {LeafModel, MidModel, TopModel}
    /\ hashSeed = 0
    /\ hist = <<>>
    /\ split = NoSplit
    /\ submodels = <<>>
    /\ uclid = NotEmitted
    /\ OthersIdle

\* submodels = []; model._get_submodules(submodels, set())
GetSubmodules ==
    /\ submodels = <<>>
    /\ submodels' = get_submodules(model, [list |-> <<>>, visited |-> {}]).list
    /\ UNCHANGED <<model, hashSeed, hist, split, uclid, otherVars>>

\* model.to_uclid_with_children()
ToUclidWithChildren ==
    /\ uclid = NotEmitted
    /\ uclid' = to_uclid_with_children(model)
    /\ UNCHANGED <<model, hashSeed, hist, split, submodels, otherVars>>

EmitNext == GetSubmodules \/ ToUclidWithChildren

EmitSpec == EmitInit /\ [][EmitNext]_vars

-----------------------------------------------------------------------------
(* Properties of the emitter.                                              *)

\* the models of the tree below and including m
RECURSIVE ModelsOf(_)
ModelsOf(m) == {m} \cup UNION {ModelsOf(m.instances[i].v.model) : i \in DOMAIN m.instances}

\* some model of the tree has a proper descendant of its own name
NameBelowItself(m) ==
    \E a \in ModelsOf(m) : \E i \in DOMAIN a.instances :
        \E d \in ModelsOf(a.instances[i].v.model) : d.name = a.name

\* C19: the traversal of a finite acyclic instance graph lists every model
\* after all the models it instantiates, and lists exactly one model per
\* distinct model name, wherever in the tree a name is repeated: sibling,
\* cousin, or descendant of a same-named ancestor.
C19_PostOrderOncePerName ==
    submodels # <<>> =>
        /\ \A i \in DOMAIN submodels : \A k \in DOMAIN submodels[i].instances :
               \E j \in 1..(i - 1) : submodels[j].name = submodels[i].instances[k].v.model.name
        /\ {submodels[i].name : i \in DOMAIN submodels} = {m.name : m \in ModelsOf(model)}
        /\ \A i, j \in DOMAIN submodels : i # j => submodels[i].name # submodels[j].name

\* C20: emitting a model tree that refers to no undeclared UF placeholder
\* completes and returns text.
C20_EmissionCompletes ==
    uclid # NotEmitted => uclid.status = "ok"

-----------------------------------------------------------------------------
(* UFPlaceholder.to_ufterm and the rewriting of variable references by     *)
(* Model.to_uclid (fix_var_refs).                                          *)

\* maybe_free_arg_var(): the tuple with the free variable, empty for None
maybe_free_arg_var(uf) ==
    IF ~uf.free_arg THEN <<>>
    ELSE <<Variable(<<"__free_">> \o uf.name, uf.sort)>>

\* smt.UFTerm(name, sort, params): the declaration of a function
UFTerm(name, sort, params) == [name |-> name, sort |-> sort, params |-> params]

\* to_ufterm(): the declared parameters, followed by the free variable if any
to_ufterm(uf) == UFTerm(uf.name, uf.sort, uf.params \o maybe_free_arg_var(uf))

\* smt.ApplyUF(fun, args): the application of fun to args (the declared
\* parameters of fun are kept in the field keys)
ApplyUF(fun, args) == Term("apply", fun.name, fun.sort, 0, args, fun.params)

\* Term.replace_vars(d) for a dict d from Variables to Terms; a replacement
\* is not itself rewritten
RECURSIVE replace_vars_by(_, _)
replace_vars_by(t, d) ==
    IF DictHas(d, t) THEN DictGet(d, t)
    ELSE [t EXCEPT !.args = [i \in DOMAIN t.args |-> replace_vars_by(t.args[i], d)]]

\* the dict ufs of fix_var_refs: the entries for self.ufs, updated with the
\* entries for self.next_ufs
uf_applications(m) ==
    LET all == m.ufs \o m.next_ufs
    IN  DictOf([i \in DOMAIN all |->
            KV(Variable(all[i].name, all[i].sort), ApplyUF(to_ufterm(all[i]), all[i].params))])

\* fix_var_refs(expr): the term that is rendered, expr.replace_vars(ufs)
fix_var_refs(m, expr) == replace_vars_by(expr, uf_applications(m))

\* the parameter lists, placeholders and models the rewriting is applied to
ParamLists ==
    {<<>>, <<Variable(N("x"), BoolSort)>>, <<Variable(N("x"), BoolSort), Variable(N("s"), BV2)>>}

Placeholders(name, sort) ==
    {UFPlaceholder(name, sort, params, free_arg) : params \in ParamLists, free_arg \in BOOLEAN}

UFModel(ufs, next_ufs) ==
    LET x == Variable(N("x"), BoolSort)
        s == Variable(N("s"), BV2)
        o == Variable(N("o"), BoolSort)
        f == Variable(N("f"), BoolSort)
        g == Variable(N("g"), BV2)
    IN  [NewModel(N("m")) EXCEPT
            !.inputs = <<x>>, !.outputs = <<o>>, !.state = <<s>>,
            !.ufs = ufs, !.next_ufs = next_ufs,
            !.logic = <<KV(o, Ite(x, f, IndexTerm(g, 0)))>>,
            !.default_next = << <<KV(s, Ite(f, g, NotTerm(s)))>> >>]

UFModels ==
    {UFModel(ufs, next_ufs) :
        ufs \in {<<>>} \cup {<<p>> : p \in Placeholders(N("f"), BoolSort)},
        next_ufs \in {<<>>} \cup {<<p>> : p \in Placeholders(N("g"), BV2)}
                            \cup {<<p>> : p \in Placeholders(N("f"), BoolSort)}}

\* the right-hand sides of the logic and of the transitions of m
RightHandSides(m) ==
    {m.logic[i].v : i \in DOMAIN m.logic}
    \cup UNION {{m.default_next[n][i].v : i \in DOMAIN m.default_next[n]} : n \in DOMAIN m.default_next}

RewriteInit ==
    /\ model \in UFModels
    /\ hashSeed = 0
    /\ hist = <<>>
    /\ split = NoSplit
    /\ submodels = <<>>
    /\ uclid = NotEmitted
    /\ OthersIdle

\* fix_var_refs(rhs), for a right-hand side or a subterm of one
FixVarRefs(expr) ==
    /\ rewrite = NoRewrite
    /\ rewrite' = [status |-> "ok", expr |-> expr, result |-> fix_var_refs(model, expr)]
    /\ UNCHANGED <<modelVars, translation, lowering, guidance, answer>>

RewriteNext ==
    \E rhs \in RightHandSides(model) : \E expr \in {rhs} \cup Range(rhs.args) : FixVarRefs(expr)

RewriteSpec == RewriteInit /\ [][RewriteNext]_vars

\* the subterms of t, t included
RECURSIVE SubTerms(_)
SubTerms(t) == {t} \cup UNION {SubTerms(t.args[i]) : i \in DOMAIN t.args}

-----------------------------------------------------------------------------
(* verilog_to_model, as its tests give it: the designs translated, the     *)
(* Models expected, and the lowering of a variable bit index.              *)

\* the widest bitvector indexed by a variable
MaxBits == 3

\* a signal of a design: its declaration and the signals its assignment reads
Signal(name, sort, kind, reads) == [name |-> name, sort |-> sort, kind |-> kind, reads |-> reads]

BV3 == BVSort(3)

\* module top(input clk, input should_inc, output [2:0] result): the
\* registers a and b are incremented when should_inc
IncRtl ==
    <<Signal(N("should_inc"), BoolSort, "input", {}),
      Signal(N("a"), BV3, "reg", {N("should_inc"), N("a_p1"), N("a")}),
      Signal(N("b"), BV3, "reg", {N("should_inc"), N("b_p1"), N("b")}),
      Signal(N("a_p1"), BV3, "wire", {N("a")}),
      Signal(N("b_p1"), BV3, "wire", {N("b")}),
      Signal(N("result"), BV3, "output", {N("a"), N("b")})>>

\* module top(input clk, input [1:0] in, input [1:0] ignore, output [1:0] out):
\* a <= in + 1; b <= a & ignore; c <= b; assign out = c
ChainRtl ==
    <<Signal(N("in"), BV2, "input", {}),
      Signal(N("ignore"), BV2, "input", {}),
      Signal(N("a"), BV2, "reg", {N("in")}),
      Signal(N("b"), BV2, "reg", {N("a"), N("ignore")}),
      Signal(N("c"), BV2, "reg", {N("b")}),
      Signal(N("out"), BV2, "output", {N("c")})>>

\* the Model expected of IncRtl when kept is important and the other register
\* is not: that register is read by result and has the placeholders ufs
IncModel(kept, ufs) ==
    LET k          == Variable(N(kept), BV3)
        k_p1       == Variable(N(kept) \o <<"_p1">>, BV3)
        should_inc == Variable(N("should_inc"), BoolSort)
        result     == Variable(N("result"), BV3)
        a          == Variable(N("a"), BV3)
        b          == Variable(N("b"), BV3)
    IN  [NewModel(N("top")) EXCEPT
            !.inputs = <<should_inc>>, !.outputs = <<result>>, !.state = <<k, k_p1>>,
            !.ufs = ufs,
            !.logic = <<KV(k_p1, OpTerm("bvadd", <<k, BVConst(1, 3)>>)),
                        KV(result, OpTerm("bvor", <<NotTerm(a), NotTerm(b)>>))>>,
            !.default_next = << <<KV(k, Ite(should_inc, k_p1, k))>> >>]

\* the Model expected of IncRtl under KEEP_COI when only kept is important
IncModelKeepCoi(kept) ==
    LET k          == Variable(N(kept), BV3)
        k_p1       == Variable(N(kept) \o <<"_p1">>, BV3)
        should_inc == Variable(N("should_inc"), BoolSort)
    IN  [NewModel(N("top")) EXCEPT
            !.inputs = <<should_inc>>, !.state = <<k, k_p1>>,
            !.logic = <<KV(k_p1, OpTerm("bvadd", <<k, BVConst(1, 3)>>))>>,
            !.default_next = << <<KV(k, Ite(should_inc, k_p1, k))>> >>]

\* a variant of ChainNextUFs: c is given a free argument too
ChainNextUFsAllFree ==
    <<UFPlaceholder(N("c"), BV2, <<Variable(N("b"), BV2)>>, TRUE),
      UFPlaceholder(N("b"), BV2, <<Variable(N("a"), BV2)>>, TRUE),
      UFPlaceholder(N("a"), BV2, <<Variable(N("in"), BV2)>>, FALSE)>>

\* a variant of ChainNextUFs: c has a second placeholder
ChainNextUFsTwice ==
    <<UFPlaceholder(N("c"), BV2, <<Variable(N("b"), BV2)>>, FALSE),
      UFPlaceholder(N("b"), BV2, <<Variable(N("a"), BV2)>>, TRUE),
      UFPlaceholder(N("a"), BV2, <<Variable(N("in"), BV2)>>, FALSE),
      UFPlaceholder(N("c"), BV2, <<>>, TRUE)>>

\* next_ufs of the Model expected of ChainRtl
ChainNextUFs ==
    <<UFPlaceholder(N("c"), BV2, <<Variable(N("b"), BV2)>>, FALSE),
      UFPlaceholder(N("b"), BV2, <<Variable(N("a"), BV2)>>, TRUE),
      UFPlaceholder(N("a"), BV2, <<Variable(N("in"), BV2)>>, FALSE)>>

\* the Model expected of ChainRtl under UF_ARGS_COI, out and in important
ChainModel ==
    LET in_ == Variable(N("in"), BV2)
        out == Variable(N("out"), BV2)
    IN  [NewModel(N("top")) EXCEPT
            !.inputs = <<in_>>, !.outputs = <<out>>,
            !.next_ufs = ChainNextUFs,
            !.logic = <<KV(out, Variable(N("c"), BV2))>>]

\* module top(input clk, input bit, input [wi-1:0] idx, output out) with
\* reg [w-1:0] op: op[idx] = bit at every clock edge, assign out = op[idx]
VarIndexRtl(w, wi) ==
    <<Signal(N("bit"), BoolSort, "input", {}),
      Signal(N("idx"), BVSort(wi), "input", {}),
      Signal(N("op"), BVSort(w), "reg", {N("op"), N("idx"), N("bit")}),
      Signal(N("out"), BoolSort, "output", {N("op"), N("idx")})>>

\* a variant of ReadLowering: the shift is to the left
ReadLoweringShiftLeft(op, idx) ==
    LET w == op.sort.bitwidth
    IN  OpTerm("bvand", <<OpTerm("bvsll", <<op, zpad(idx, w - idx.sort.bitwidth)>>), BVConst(1, w)>>)

\* op[idx] read: a shift and a mask, (op >> zpad(idx)) & 1 at the width of op
ReadLowering(op, idx) ==
    LET w == op.sort.bitwidth
    IN  OpTerm("bvand", <<OpTerm("bvsrl", <<op, zpad(idx, w - idx.sort.bitwidth)>>), BVConst(1, w)>>)

\* a variant of WriteLowering: the bit written is not cleared first
WriteLoweringNoClear(op, idx, bit) ==
    LET w    == op.sort.bitwidth
        zidx == zpad(idx, w - idx.sort.bitwidth)
    IN  OpTerm("bvor", <<op, OpTerm("bvsll", <<zpad(bit, w - 1), zidx>>)>>)

\* op[idx] = bit: op = (op & ~(1 << zpad(idx))) | (zpad(bit) << zpad(idx))
WriteLowering(op, idx, bit) ==
    LET w    == op.sort.bitwidth
        zidx == zpad(idx, w - idx.sort.bitwidth)
    IN  OpTerm("bvor",
               <<OpTerm("bvand", <<op, NotTerm(OpTerm("bvsll", <<BVConst(1, w), zidx>>))>>),
                 OpTerm("bvsll", <<zpad(bit, w - 1), zidx>>)>>)

\* the Model expected of VarIndexRtl(w, wi)
VarIndexModel(w, wi) ==
    LET bit == Variable(N("bit"), BoolSort)
        idx == Variable(N("idx"), BVSort(wi))
        out == Variable(N("out"), BoolSort)
        op  == Variable(N("op"), BVSort(w))
    IN  [NewModel(N("top")) EXCEPT
            !.inputs = <<bit, idx>>, !.outputs = <<out>>, !.state = <<op>>,
            !.logic = <<KV(out, ReadLowering(op, idx))>>,
            !.default_next = << <<KV(op, WriteLowering(op, idx, bit))>> >>]

\* the widths of an indexed bitvector and of its index
IndexWidths == {<<w, wi>> \in (1..MaxBits) \X (1..MaxBits) : wi <= w}

\* a verilog_to_model(rtl, "top", important_signals=..., coi_conf=...) call;
\* important_signals is empty when none is given
Request(rtl, important_signals, coi_conf) ==
    [rtl |-> rtl, important_signals |-> important_signals, coi_conf |-> coi_conf]

NoA == <<N("should_inc"), N("b"), N("b_p1"), N("result")>>
NoB == <<N("should_inc"), N("a"), N("a_p1"), N("result")>>

\* the calls whose result the tests give
Requests ==
    {Request(IncRtl, NoA, "NO_COI"), Request(IncRtl, NoB, "NO_COI"),
     Request(IncRtl, NoA, "UF_ARGS_COI"), Request(IncRtl, NoB, "UF_ARGS_COI"),
     Request(ChainRtl, <<N("out"), N("in")>>, "UF_ARGS_COI"),
     Request(IncRtl, <<N("b")>>, "KEEP_COI"), Request(IncRtl, <<N("a")>>, "KEEP_COI")}
    \cup {Request(VarIndexRtl(ws[1], ws[2]), <<>>, "NO_COI") : ws \in IndexWidths}

\* verilog_to_model: the Model each test expects
verilog_to_model(rtl, important_signals, coi_conf) ==
    LET should_inc == Variable(N("should_inc"), BoolSort)
        req        == Request(rtl, important_signals, coi_conf)
    IN  CASE req = Request(IncRtl, NoA, "NO_COI") ->
                IncModel("b", <<UFPlaceholder(N("a"), BV3, <<>>, TRUE)>>)
          [] req = Request(IncRtl, NoB, "NO_COI") ->
                IncModel("a", <<UFPlaceholder(N("b"), BV3, <<>>, TRUE)>>)
          [] req = Request(IncRtl, NoA, "UF_ARGS_COI") ->
                IncModel("b", <<UFPlaceholder(N("a"), BV3, <<should_inc>>, TRUE)>>)
          [] req = Request(IncRtl, NoB, "UF_ARGS_COI") ->
                IncModel("a", <<UFPlaceholder(N("b"), BV3, <<should_inc>>, TRUE)>>)
          [] req = Request(ChainRtl, <<N("out"), N("in")>>, "UF_ARGS_COI") -> ChainModel
          [] req = Request(IncRtl, <<N("b")>>, "KEEP_COI") -> IncModelKeepCoi("b")
          [] req = Request(IncRtl, <<N("a")>>, "KEEP_COI") -> IncModelKeepCoi("a")
          [] \E ws \in IndexWidths : req = Request(VarIndexRtl(ws[1], ws[2]), <<>>, "NO_COI") ->
                VarIndexModel(rtl[3].sort.bitwidth, rtl[2].sort.bitwidth)

\* no value yet, a value
NoValue == <<>>
Value(v) == <<v>>

\* the values of op, idx and bit at a clock edge of VarIndexRtl(w, wi), and
\* the values of out and of the next op once computed
Valuation(op, idx, bit) ==
    [status |-> "drawn", op |-> op, idx |-> idx, bit |-> bit, out |-> NoValue, next_op |-> NoValue]

ValuationsOf(rtl) ==
    {Valuation(op, idx, bit) : op \in ValuesOf(rtl[3].sort), idx \in ValuesOf(rtl[2].sort),
                               bit \in ValuesOf(BoolSort)}

IsVarIndex(rtl) == \E ws \in IndexWidths : rtl = VarIndexRtl(ws[1], ws[2])

VerilogInit ==
    /\ model = NewModel(N("top"))
    /\ hashSeed = 0
    /\ hist = <<>>
    /\ split = NoSplit
    /\ submodels = <<>>
    /\ uclid = NotEmitted
    /\ rewrite = NoRewrite
    /\ \E req \in Requests :
          /\ translation = [status |-> "called", rtl |-> req.rtl,
                            important_signals |-> req.important_signals, coi_conf |-> req.coi_conf]
          /\ lowering \in (IF IsVarIndex(req.rtl) THEN ValuationsOf(req.rtl) ELSE {NoLowering})
    /\ guidance = NoGuidance
    /\ answer = NoAnswer

\* model = verilog_to_model(rtl, "top", important_signals, coi_conf)
VerilogToModel ==
    /\ translation.status = "called"
    /\ translation' = [translation EXCEPT !.status = "ok"]
    /\ model' = verilog_to_model(translation.rtl, translation.important_signals, translation.coi_conf)
    /\ UNCHANGED <<hashSeed, hist, split, submodels, uclid, rewrite, lowering, guidance, answer>>

\* the valuation of the inputs and state of the translated design
LoweringEnv ==
    [n \in {N("op"), N("idx"), N("bit")} |->
        IF n = N("op") THEN lowering.op ELSE IF n = N("idx") THEN lowering.idx ELSE lowering.bit]

\* the value of the output out of the model
ReadBit ==
    /\ translation.status = "ok"
    /\ lowering.status = "drawn"
    /\ lowering.out = NoValue
    /\ lowering' = [lowering EXCEPT
                       !.out = Value(OutputValues(model, LoweringEnv)[Variable(N("out"), BoolSort)])]
    /\ UNCHANGED <<modelVars, rewrite, translation, guidance, answer>>

\* the next value of the state variable op of the model
WriteBit ==
    /\ translation.status = "ok"
    /\ lowering.status = "drawn"
    /\ lowering.next_op = NoValue
    /\ lowering' = [lowering EXCEPT
                       !.next_op = Value(NextValues(model, LoweringEnv)[model.state[1]])]
    /\ UNCHANGED <<modelVars, rewrite, translation, guidance, answer>>

VerilogNext ==
    \/ VerilogToModel
    \/ ReadBit
    \/ WriteBit

VerilogSpec == VerilogInit /\ [][VerilogNext]_vars

\* bit j of the value v
BitOf(v, j) == (v \div Pow2(j)) % 2

\* the width of the indexed bitvector of the translated design
IndexedWidth == model.state[1].sort.bitwidth

\* C22: for every value op of width w and every index idx with 0 <= idx < w,
\* the value of the lowered read (op >> zero_extend(idx)) & 1 is the value of
\* the constant-index extraction of bit idx of op: 1 when that bit is 1, and
\* 0 otherwise.
C22_ReadIsBitExtraction ==
    (lowering.status = "drawn" /\ lowering.out # NoValue /\ lowering.idx < IndexedWidth) =>
        /\ lowering.out[1] = Eval(IndexTerm(BVConst(lowering.op, IndexedWidth), lowering.idx), <<>>)
        /\ lowering.out[1] = BitOf(lowering.op, lowering.idx)
        /\ lowering.out[1] \in {0, 1}

\* bit 1 or above of a widest value is read, it is set and bit 0 is not
C22_HighBitRead ==
    /\ lowering.status = "drawn" /\ lowering.out = Value(1)
    /\ IndexedWidth = MaxBits
    /\ lowering.idx >= 1 /\ lowering.idx < IndexedWidth
    /\ BitOf(lowering.op, 0) = 0

\* C23: for every value op of width w, every index idx with 0 <= idx < w and
\* every bit, the value of the lowered write has the written bit at position
\* idx and, at every other position, the bit that op has there.
C23_WriteSetsOneBit ==
    (lowering.status = "drawn" /\ lowering.next_op # NoValue /\ lowering.idx < IndexedWidth) =>
        /\ lowering.next_op[1] \in ValuesOf(model.state[1].sort)
        /\ \A j \in 0..(IndexedWidth - 1) :
              BitOf(lowering.next_op[1], j) =
                  IF j = lowering.idx THEN lowering.bit ELSE BitOf(lowering.op, j)

\* a set bit is cleared by the write, next to a set bit that stays
C23_BitCleared ==
    /\ lowering.status = "drawn" /\ lowering.next_op # NoValue
    /\ lowering.idx < IndexedWidth
    /\ lowering.bit = 0 /\ BitOf(lowering.op, lowering.idx) = 1
    /\ \E j \in 0..(IndexedWidth - 1) : j # lowering.idx /\ BitOf(lowering.next_op[1], j) = 1

\* the names of the important signals of the call, and of the other signals
\* of the design (the signals that may be elided)
Important == Range(translation.important_signals)
Elided == {translation.rtl[i].name : i \in DOMAIN translation.rtl} \ Important

\* a translation with an important-signal set has returned
Translated == translation.status = "ok" /\ translation.important_signals # <<>>

\* the placeholders of the model that are named name
PlaceholdersNamed(name) ==
    Cardinality({i \in DOMAIN model.ufs : model.ufs[i].name = name})
    + Cardinality({i \in DOMAIN model.next_ufs : model.next_ufs[i].name = name})

\* the names the kept logic and transitions of the model read, and the names
\* the placeholders of the model take as parameters
NamesRead ==
    {v.name : v \in UNION {TermVars(t) : t \in RightHandSides(model)}}
    \cup {v.name : v \in UNION {Range(uf.params) : uf \in Range(model.ufs) \cup Range(model.next_ufs)}}

Reads(rtl, name) == UNION {rtl[i].reads : i \in {j \in DOMAIN rtl : rtl[j].name = name}}

\* names, and every signal read by a signal of it that is not in stop
RECURSIVE Closure(_, _, _)
Closure(rtl, names, stop) ==
    LET more == names \cup UNION {Reads(rtl, n) : n \in names \ stop}
    IN  IF more = names THEN names ELSE Closure(rtl, more, stop)

\* the influence set of a signal: the transitive set of signals it depends on
InfluenceSet(rtl, name) == Closure(rtl, Reads(rtl, name), {})

\* the influence set of a signal that is left once the important and the
\* UF-covered signals explain their own dependencies
ResidualInfluenceSet(rtl, name, covered) == Closure(rtl, Reads(rtl, name), covered)

\* the signals with a placeholder in the model
Covered == NamesOf(model.ufs) \cup NamesOf(model.next_ufs)

\* the chain in -> a -> b -> c has been translated
ChainTranslated == Translated /\ translation.rtl = ChainRtl

\* in the chain, each link is a sequential placeholder whose only parameter
\* is the link before it, and only b has a free argument
ChainLinks ==
    ChainTranslated =>
        /\ model.ufs = <<>>
        /\ NamesOf(model.next_ufs) = {N("a"), N("b"), N("c")}
        /\ \A uf \in Range(model.next_ufs) :
              /\ uf.params = <<Variable(CASE uf.name = N("c") -> N("b")
                                          [] uf.name = N("b") -> N("a")
                                          [] uf.name = N("a") -> N("in"), BV2)>>
              /\ uf.free_arg <=> uf.name = N("b")

-----------------------------------------------------------------------------
(* Guidance: the annotations of the signals of a design, by clock cycle or *)
(* by predicate.                                                           *)

\* the cycles of a Guidance object
NumCycles == 2
\* at most this many calls are made on a Guidance object
MaxOps == 3

\* the members of AnnoType
AnnoType == {"DONT_CARE", "ASSUME", "PARAM", "OUTPUT"}

\* a signal of the design: its qualified path and its base path
S(module_name, base) == [module_name |-> module_name, base |-> base]
get_all_qp_instances(s) == s.module_name \o <<"->">> \o s.base
get_all_bp_instances(s) == s.base

\* a key of an annotation dict: a cycle number (an int) or a predicate (an
\* smt.Term, one of the numbered predicates)
IntKey(n) == [kind |-> "int", n |-> n]
TermKey(p) == [kind |-> "term", n |-> p]

\* defaultdict(lambda: default), empty
NewAnnotations(default) == [default |-> default, items |-> <<>>]

\* Guidance(signals, num_cycles)
NewGuidance(signals, num_cycles) ==
    LET signal_names == [i \in DOMAIN signals |-> get_all_qp_instances(signals[i])]
        base_names   == [i \in DOMAIN signals |-> get_all_bp_instances(signals[i])]
    IN  [status            |-> "ok",
         signal_names      |-> signal_names,
         base_names        |-> base_names,
         base_to_qualified |-> DictOf([i \in DOMAIN signals |-> KV(base_names[i], signal_names[i])]),
         num_cycles        |-> num_cycles,
         guide_dict        |-> <<>>]

\* _validate_signame(signal): the qualified name, or KeyError
validate_signame(g, signal) ==
    IF signal \in Range(g.signal_names) THEN [status |-> "ok", name |-> signal]
    ELSE IF DictHas(g.base_to_qualified, signal)
         THEN [status |-> "ok", name |-> DictGet(g.base_to_qualified, signal)]
         ELSE [status |-> "KeyError"]

\* what a call returns or raises, and _guide_dict after it
Outcome(result, guide_dict) == [result |-> result, guide_dict |-> guide_dict]

\* _guide_dict once self._guide_dict[signal] has been evaluated: a signal
\* with no entry gets an empty one with default DONT_CARE
Vivified(guide_dict, signal) ==
    IF DictHas(guide_dict, signal) THEN guide_dict
    ELSE DictSet(guide_dict, signal, NewAnnotations("DONT_CARE"))

\* len(own_dict) and isinstance(list(own_dict.keys())[0], ...)
FirstKeyIs(own_dict, kind) == own_dict.items # <<>> /\ own_dict.items[1].k.kind = kind

\* own_dict.update(annotation), the items of annotation in their order
RECURSIVE update(_, _)
update(items, annotation) ==
    IF annotation = <<>> THEN items
    ELSE update(DictSet(items, annotation[1].k, annotation[1].v), Tail(annotation))

\* the arguments of annotate: a list, a dict, an AnnoType
ListAnnotation(vals) == [kind |-> "list", vals |-> vals]
DictAnnotation(items) == [kind |-> "dict", items |-> items]
UniformAnnotation(val) == [kind |-> "anno", val |-> val]

\* annotate(signal, [g0, g1, ...]): self._guide_dict[signal][t] = g for each
annotate_list(guide_dict, signal, vals) ==
    LET d   == Vivified(guide_dict, signal)
        own == DictGet(d, signal)
    IN  IF vals = <<>> THEN Outcome("None", guide_dict)
        ELSE Outcome("None", DictSet(d, signal,
                 [own EXCEPT !.items = update(own.items, [t \in DOMAIN vals |-> KV(IntKey(t - 1), vals[t])])]))

\* annotate(signal, {key: g, ...})
annotate_dict(guide_dict, signal, items) ==
    IF items = <<>> THEN Outcome("IndexError", guide_dict)
    ELSE LET first_key == items[1].k
             d         == Vivified(guide_dict, signal)
             own_dict  == DictGet(d, signal)
             updated   == DictSet(d, signal, [own_dict EXCEPT !.items = update(own_dict.items, items)])
         IN  CASE first_key.kind = "int" ->
                    IF FirstKeyIs(own_dict, "term") THEN Outcome("Exception", d)
                    ELSE Outcome("None", updated)
               [] first_key.kind = "term" ->
                    IF FirstKeyIs(own_dict, "int") THEN Outcome("Exception", d)
                    ELSE Outcome("None", updated)
               [] OTHER -> Outcome("Exception", d)

\* annotate(signal, AnnoType.X): self._guide_dict[signal] = defaultdict(lambda: X)
annotate_uniform(guide_dict, signal, val) ==
    Outcome("None", DictSet(guide_dict, signal, NewAnnotations(val)))

\* annotate(signal, annotation)
annotate(g, signal, annotation) ==
    LET checked == validate_signame(g, signal)
    IN  IF checked.status # "ok" THEN Outcome(checked.status, g.guide_dict)
        ELSE CASE annotation.kind = "list" -> annotate_list(g.guide_dict, checked.name, annotation.vals)
               [] annotation.kind = "dict" -> annotate_dict(g.guide_dict, checked.name, annotation.items)
               [] annotation.kind = "anno" -> annotate_uniform(g.guide_dict, checked.name, annotation.val)
               [] OTHER                    -> Outcome("Exception", g.guide_dict)

\* get_annotation_at(signal, cycle): own_dict[cycle] stores the default under
\* a key that is missing
get_annotation_at(g, signal, cycle) ==
    LET checked == validate_signame(g, signal)
    IN  IF checked.status # "ok" THEN Outcome(checked.status, g.guide_dict)
        ELSE IF cycle >= g.num_cycles THEN Outcome("IndexError", g.guide_dict)
        ELSE LET d        == Vivified(g.guide_dict, checked.name)
                 own_dict == DictGet(d, checked.name)
             IN  IF FirstKeyIs(own_dict, "term") THEN Outcome("None", d)
                 ELSE IF DictHas(own_dict.items, IntKey(cycle))
                      THEN Outcome(DictGet(own_dict.items, IntKey(cycle)), d)
                      ELSE Outcome(own_dict.default,
                                   DictSet(d, checked.name,
                                           [own_dict EXCEPT !.items = Append(@, KV(IntKey(cycle), own_dict.default))]))

\* get_predicated_annotations(signal)
get_predicated_annotations(g, signal) ==
    LET checked == validate_signame(g, signal)
    IN  IF checked.status # "ok" THEN Outcome(checked.status, g.guide_dict)
        ELSE LET d        == Vivified(g.guide_dict, checked.name)
                 own_dict == DictGet(d, checked.name)
             IN  IF FirstKeyIs(own_dict, "term") THEN Outcome(own_dict.items, d)
                 ELSE Outcome(<<>>, d)

\* get_outputs(): the (signal, key) pairs stored with OUTPUT
get_outputs(g) ==
    UNION {{<<g.guide_dict[i].k, g.guide_dict[i].v.items[j].k>> :
               j \in {n \in DOMAIN g.guide_dict[i].v.items : g.guide_dict[i].v.items[n].v = "OUTPUT"}} :
           i \in DOMAIN g.guide_dict}

\* the signals of the design, and the names calls are made with: a base
\* name, a qualified name, and a name that is not a signal's
Signals == <<S(N("tb"), N("a")), S(N("tb"), N("b"))>>
SignalArgs == {N("a"), N("tb") \o <<"->">> \o N("a"), N("b"), N("z")}

\* the annotations calls are made with
ListArgs ==
    {ListAnnotation(<<>>), ListAnnotation(<<"ASSUME">>), ListAnnotation(<<"PARAM", "OUTPUT">>),
     ListAnnotation([c \in 1..(NumCycles + 1) |-> "OUTPUT"])}
CycleDictArgs ==
    {DictAnnotation(<<>>), DictAnnotation(<<KV(IntKey(0), "OUTPUT")>>),
     DictAnnotation(<<KV(IntKey(1), "PARAM")>>), DictAnnotation(<<KV(IntKey(NumCycles), "OUTPUT")>>)}
PredicateDictArgs ==
    {DictAnnotation(<<KV(TermKey(1), "PARAM")>>),
     DictAnnotation(<<KV(TermKey(1), "OUTPUT"), KV(TermKey(2), "DONT_CARE")>>)}
UniformArgs == {UniformAnnotation("OUTPUT"), UniformAnnotation("ASSUME")}
AnnotationArgs == ListArgs \cup CycleDictArgs \cup PredicateDictArgs \cup UniformArgs

GuidanceInit ==
    /\ model = NewModel(N("top"))
    /\ hashSeed = 0
    /\ hist = <<>>
    /\ split = NoSplit
    /\ submodels = <<>>
    /\ uclid = NotEmitted
    /\ rewrite = NoRewrite
    /\ translation = NoTranslation
    /\ lowering = NoLowering
    /\ guidance = NewGuidance(Signals, NumCycles)
    /\ answer = NoAnswer

\* the call made, its arguments, what it returned or raised, and the number
\* of calls so far
Answer(op, signal, arg, result) ==
    [op |-> op, signal |-> signal, arg |-> arg, result |-> result, n |-> answer.n + 1]

Annotate(signal, annotation) ==
    /\ answer.n < MaxOps
    /\ LET r == annotate(guidance, signal, annotation)
       IN  /\ guidance' = [guidance EXCEPT !.guide_dict = r.guide_dict]
           /\ answer' = Answer("annotate", signal, annotation, r.result)
    /\ UNCHANGED <<modelVars, rewrite, translation, lowering>>

GetAnnotationAt(signal, cycle) ==
    /\ answer.n < MaxOps
    /\ LET r == get_annotation_at(guidance, signal, cycle)
       IN  /\ guidance' = [guidance EXCEPT !.guide_dict = r.guide_dict]
           /\ answer' = Answer("get_annotation_at", signal, cycle, r.result)
    /\ UNCHANGED <<modelVars, rewrite, translation, lowering>>

GetPredicatedAnnotations(signal) ==
    /\ answer.n < MaxOps
    /\ LET r == get_predicated_annotations(guidance, signal)
       IN  /\ guidance' = [guidance EXCEPT !.guide_dict = r.guide_dict]
           /\ answer' = Answer("get_predicated_annotations", signal, 0, r.result)
    /\ UNCHANGED <<modelVars, rewrite, translation, lowering>>

GetOutputs ==
    /\ answer.n < MaxOps
    /\ answer' = Answer("get_outputs", <<>>, 0, get_outputs(guidance))
    /\ UNCHANGED <<modelVars, rewrite, translation, lowering, guidance>>

GuidanceNext ==
    \/ \E signal \in SignalArgs : \E annotation \in AnnotationArgs : Annotate(signal, annotation)
    \/ \E signal \in SignalArgs : \E cycle \in 0..NumCycles : GetAnnotationAt(signal, cycle)
    \/ \E signal \in SignalArgs : GetPredicatedAnnotations(signal)
    \/ GetOutputs

GuidanceSpec == GuidanceInit /\ [][GuidanceNext]_vars

\* the annotations stored for each signal; a signal with no entry has none
StoredAnnotations(g) ==
    [q \in Range(g.signal_names) |->
        IF DictHas(g.guide_dict, q) THEN DictGet(g.guide_dict, q) ELSE NewAnnotations("DONT_CARE")]

\* C26: a read of the Guidance store, get_annotation_at or
\* get_predicated_annotations, leaves the annotations stored for every signal
\* as they were, so that no later call can tell whether the read was made.
C26_ReadsLeaveStore ==
    [][answer'.op \in {"get_annotation_at", "get_predicated_annotations"} =>
          StoredAnnotations(guidance') = StoredAnnotations(guidance)]_vars

\* no signal is annotated by predicates
NoPredicates(g) ==
    \A i \in DOMAIN g.guide_dict : \A j \in DOMAIN g.guide_dict[i].v.items :
        g.guide_dict[i].v.items[j].k.kind = "int"

\* C27: when the annotations are by cycle or uniform, get_outputs() returns
\* exactly the pairs (qualified signal name, cycle) with cycle < num_cycles
\* for which get_annotation_at(signal, cycle) returns OUTPUT.
C27_OutputsAreOutputCycles ==
    (answer.op = "get_outputs" /\ NoPredicates(guidance)) =>
        answer.result =
            {p \in Range(guidance.signal_names) \X {IntKey(c) : c \in 0..(guidance.num_cycles - 1)} :
                get_annotation_at(guidance, p[1], p[2].n).result = "OUTPUT"}

\* the signal named in the last call, qualified
Annotated == validate_signame(guidance, answer'.signal).name

\* the annotate call just made returned, with annotations by cycle: the
\* (cycle, AnnoType) items it set
CyclesSet ==
    IF answer'.op # "annotate" \/ answer'.result # "None" THEN <<>>
    ELSE CASE answer'.arg.kind = "list" ->
                  [t \in DOMAIN answer'.arg.vals |-> KV(IntKey(t - 1), answer'.arg.vals[t])]
           [] answer'.arg.kind = "dict" /\ answer'.arg.items[1].k.kind = "int" -> answer'.arg.items
           [] answer'.arg.kind = "anno" ->
                  [t \in 1..guidance.num_cycles |-> KV(IntKey(t - 1), answer'.arg.val)]
           [] OTHER -> <<>>

\* the annotate call just made returned, with annotations by predicate
PredicatesSet ==
    /\ answer'.op = "annotate" /\ answer'.result = "None"
    /\ answer'.arg.kind = "dict" /\ answer'.arg.items[1].k.kind = "term"

\* C28: get_annotation_at(signal, c) returns the AnnoType most recently set
\* for cycle c (an annotate call by cycle changes the answer for the cycles
\* it sets, to what it sets) and DONT_CARE for a signal never annotated; the
\* answer is the same by base name and by qualified name; it is None for a
\* signal annotated by predicates.
C28_MostRecentAnnotation ==
    [][/\ \A i \in DOMAIN CyclesSet :
              CyclesSet[i].k.n < guidance.num_cycles =>
                  get_annotation_at(guidance', Annotated, CyclesSet[i].k.n).result = CyclesSet[i].v
       /\ PredicatesSet =>
              \A c \in 0..(guidance.num_cycles - 1) :
                  get_annotation_at(guidance', Annotated, c).result = "None"
       /\ \A i \in DOMAIN guidance.signal_names : \A c \in 0..(guidance.num_cycles - 1) :
              /\ get_annotation_at(guidance', guidance.base_names[i], c).result
                     = get_annotation_at(guidance', guidance.signal_names[i], c).result
              /\ ~DictHas(guidance'.guide_dict, guidance.signal_names[i]) =>
                     get_annotation_at(guidance', guidance.signal_names[i], c).result = "DONT_CARE"
      ]_vars

\* C29: the annotation map of each signal is keyed only by cycle numbers or
\* only by predicates, after every annotate call, returning or raising.
C29_KeysOfOneKind ==
    \A i \in DOMAIN guidance.guide_dict :
        \A j, k \in DOMAIN guidance.guide_dict[i].v.items :
            guidance.guide_dict[i].v.items[j].k.kind = guidance.guide_dict[i].v.items[k].k.kind

-----------------------------------------------------------------------------
(* case_split() and validate().                                            *)

\* C30: case_split preserves validity: when validate() succeeds on M and the
\* selector is a declared Bool or bitvector input or state variable, the call
\* (with the default values) returns a Model on which validate() succeeds,
\* and validate() succeeds on the model of every generated child.
C30_SplitPreservesValidity ==
    (/\ split.result.status # "none"
     /\ split.values = NoValues
     /\ validate(model, hashSeed)
     /\ SelectorIsInput \/ SelectorIsState
     /\ Selector.sort.kind \in {"bool", "bv"})
    => /\ SplitOk
       /\ validate(Returned, hashSeed)
       /\ \A c \in Children : validate(c.model, hashSeed)

====
